---- MODULE Spec2Model ----
(***************************************************************************)
(* A model of the Tekton pruner: the policy store (pkg/config/config.go),  *)
(* the TaskRun adapter and reconciler, the garbage-collection pass         *)
(* (runGarbageCollector, cleanupTRs) and, from the design document, the    *)
(* TTL handler and the history limiter; and package metrics (the           *)
(* Reporter's counters, Setup, the HybridReporter, the ErrorReporter).     *)
(*                                                                         *)
(* An optional value (a Go pointer that may be nil, an annotation that may *)
(* be absent) is a set with at most one element: {} is nil / absent.       *)
(***************************************************************************)
EXTENDS Integers, Sequences, FiniteSets, TLC

VARIABLES
    now,        \* the wall clock, in ticks (TicksPerSecond ticks to a second)
    runs,       \* the TaskRuns of the namespace as the API server holds them
    store,      \* config.PrunerConfigStore
    pass,       \* per worker (event reconciler, sweep): the History-then-TTL pass it is in
    sweep,      \* the sweep's cleanupTRs call: its list, its position, its update time
    calls,      \* every delete call the pruner issued, with what the caller saw
    obs,        \* observations: whether the family is settled, whether an error was returned
    gc,         \* the goroutines the config-map watcher started
    gcEvents,   \* config-map change events delivered so far
    fam,        \* the input and the output of one stand-alone history-limiter call
    call,       \* the last call on the policy store, with what it returned
    mu,         \* the store's mutex and the goroutines that call the store
    fan,        \* one execution of runGarbageCollector: its fan-out over the namespaces
    met         \* package metrics: the Reporter's counters, Setup, the HybridReporter

vars == <<now, runs, store, pass, sweep, calls, obs, gc, gcEvents, fam, call, mu, fan, met>>

---------------------------------------------------------------------------
(* Bounds of the model *)

NumRuns == 2
MaxClock == 2
TicksPerSecond == 2
MaxLoads == 1
MaxGcEvents == 3
MaxGoroutines == 2
MaxTTL == 1
MaxFamily == 3
MaxStamp == 1
MaxLimit == 2
HistRuns == 2
MaxWorkers == 2
MaxCount == 2

Runs == 1..NumRuns

---------------------------------------------------------------------------
(* Optional values *)

Nil == {}
Some(v) == {v}
IsNil(o) == o = {}
Val(o) == CHOOSE v \in o : TRUE

---------------------------------------------------------------------------
(* Time.  The clock counts ticks; RFC3339 text and metav1.Time hold whole  *)
(* seconds.                                                                *)

FormatRFC3339(t) == t \div TicksPerSecond
ParseRFC3339(s) == s * TicksPerSecond

---------------------------------------------------------------------------
(* The policy store: pkg/config/config.go *)

PrunerResourceTypePipelineRun == "pipelineRun"
PrunerResourceTypeTaskRun == "taskRun"
PrunerFieldTypeTTLSecondsAfterFinished == "ttlSecondsAfterFinished"
PrunerFieldTypeSuccessfulHistoryLimit == "successfulHistoryLimit"
PrunerFieldTypeFailedHistoryLimit == "failedHistoryLimit"
EnforcedConfigLevelGlobal == "global"
EnforcedConfigLevelNamespace == "namespace"
EnforcedConfigLevelResource == "resource"

\* A ResourceSpec: the policy of one named pipeline or task.
ResourceSpec(name, level, ttl, succ, fail) ==
    [name |-> name, enforcedConfigLevel |-> level,
     ttlSecondsAfterFinished |-> ttl, successfulHistoryLimit |-> succ,
     failedHistoryLimit |-> fail]

\* A PrunerResourceSpec: the policy of one namespace.
PrunerResourceSpec(level, ttl, succ, fail, prs, trs) ==
    [enforcedConfigLevel |-> level,
     ttlSecondsAfterFinished |-> ttl, successfulHistoryLimit |-> succ,
     failedHistoryLimit |-> fail, pipelineRuns |-> prs, taskRuns |-> trs]

\* A PrunerConfig: the global document.
PrunerConfig(level, ttl, succ, fail, nss) ==
    [enforcedConfigLevel |-> level,
     ttlSecondsAfterFinished |-> ttl, successfulHistoryLimit |-> succ,
     failedHistoryLimit |-> fail, namespaces |-> nss]

NoNamespaces == [n \in {} |-> PrunerResourceSpec(Nil, Nil, Nil, Nil, <<>>, <<>>)]

\* The zero PrunerConfig, with the Namespaces map LoadGlobalConfig makes.
EmptyConfig == PrunerConfig(Nil, Nil, Nil, Nil, NoNamespaces)

\* The switch on fieldType that picks one field of a spec.
FieldOf(spec, fieldType) ==
    CASE fieldType = PrunerFieldTypeTTLSecondsAfterFinished -> spec.ttlSecondsAfterFinished
      [] fieldType = PrunerFieldTypeSuccessfulHistoryLimit -> spec.successfulHistoryLimit
      [] fieldType = PrunerFieldTypeFailedHistoryLimit -> spec.failedHistoryLimit
      [] OTHER -> Nil

\* The switch on resourceType that picks the list of resource specs.
ResourceSpecsOf(nsSpec, resourceType) ==
    CASE resourceType = PrunerResourceTypePipelineRun -> nsSpec.pipelineRuns
      [] resourceType = PrunerResourceTypeTaskRun -> nsSpec.taskRuns
      [] OTHER -> <<>>

\* The first entry of the list with the name, as the range loop finds it.
FirstNamed(resourceSpecs, name) ==
    LET hits == {i \in DOMAIN resourceSpecs : resourceSpecs[i].name = name}
    IN  IF hits = {} THEN Nil
        ELSE Some(resourceSpecs[CHOOSE i \in hits : \A j \in hits : i <= j])

getFromPrunerConfigResourceLevel(namespacesSpec, namespace, name, resourceType, fieldType) ==
    IF namespace \notin DOMAIN namespacesSpec THEN Nil
    ELSE LET hit == FirstNamed(ResourceSpecsOf(namespacesSpec[namespace], resourceType), name)
         IN  IF IsNil(hit) THEN Nil ELSE FieldOf(Val(hit), fieldType)

\* The namespace-root value of a field in a map of namespace specs.
NamespaceRootField(namespacesSpec, namespace, fieldType) ==
    IF namespace \in DOMAIN namespacesSpec
    THEN FieldOf(namespacesSpec[namespace], fieldType) ELSE Nil

getResourceFieldDataGlobalResourceFirst(namespacedSpec, globalSpec, namespace, name, resourceType, fieldType, enforcedConfigLevel) ==
    LET atResource ==
            IF enforcedConfigLevel = EnforcedConfigLevelResource
            THEN getFromPrunerConfigResourceLevel(namespacedSpec, namespace, name, resourceType, fieldType)
            ELSE Nil
        globalResource ==
            IF IsNil(atResource)
            THEN getFromPrunerConfigResourceLevel(globalSpec.namespaces, namespace, name, resourceType, fieldType)
            ELSE atResource
        atNamespace ==
            IF enforcedConfigLevel \in {EnforcedConfigLevelResource, EnforcedConfigLevelNamespace}
               /\ IsNil(globalResource)
            THEN NamespaceRootField(namespacedSpec, namespace, fieldType)
            ELSE globalResource
        globalNamespace ==
            IF IsNil(atNamespace)
            THEN NamespaceRootField(globalSpec.namespaces, namespace, fieldType)
            ELSE atNamespace
        globalRoot ==
            IF IsNil(globalNamespace) THEN FieldOf(globalSpec, fieldType) ELSE globalNamespace
    IN  IF enforcedConfigLevel \in {EnforcedConfigLevelResource, EnforcedConfigLevelNamespace,
                                    EnforcedConfigLevelGlobal}
        THEN globalRoot ELSE Nil

getResourceFieldDataUncapped(namespacedSpec, globalSpec, namespace, name, resourceType, fieldType, enforcedConfigLevel) ==
    LET atResource ==
            getFromPrunerConfigResourceLevel(namespacedSpec, namespace, name, resourceType, fieldType)
        atNamespace ==
            IF IsNil(atResource)
            THEN NamespaceRootField(namespacedSpec, namespace, fieldType)
            ELSE atResource
        globalResource ==
            IF IsNil(atNamespace)
            THEN getFromPrunerConfigResourceLevel(globalSpec.namespaces, namespace, name, resourceType, fieldType)
            ELSE atNamespace
        globalNamespace ==
            IF IsNil(globalResource)
            THEN NamespaceRootField(globalSpec.namespaces, namespace, fieldType)
            ELSE globalResource
    IN  IF IsNil(globalNamespace) THEN FieldOf(globalSpec, fieldType) ELSE globalNamespace

getResourceFieldDataNamespaceReadsResource(namespacedSpec, globalSpec, namespace, name, resourceType, fieldType, enforcedConfigLevel) ==
    LET atResource ==
            IF enforcedConfigLevel \in {EnforcedConfigLevelResource, EnforcedConfigLevelNamespace}
            THEN getFromPrunerConfigResourceLevel(namespacedSpec, namespace, name, resourceType, fieldType)
            ELSE Nil
        atNamespace ==
            IF enforcedConfigLevel \in {EnforcedConfigLevelResource, EnforcedConfigLevelNamespace}
               /\ IsNil(atResource)
            THEN NamespaceRootField(namespacedSpec, namespace, fieldType)
            ELSE atResource
        globalResource ==
            IF IsNil(atNamespace)
            THEN getFromPrunerConfigResourceLevel(globalSpec.namespaces, namespace, name, resourceType, fieldType)
            ELSE atNamespace
        globalNamespace ==
            IF IsNil(globalResource)
            THEN NamespaceRootField(globalSpec.namespaces, namespace, fieldType)
            ELSE globalResource
        globalRoot ==
            IF IsNil(globalNamespace) THEN FieldOf(globalSpec, fieldType) ELSE globalNamespace
    IN  IF enforcedConfigLevel \in {EnforcedConfigLevelResource, EnforcedConfigLevelNamespace,
                                    EnforcedConfigLevelGlobal}
        THEN globalRoot ELSE Nil

getResourceFieldData(namespacedSpec, globalSpec, namespace, name, resourceType, fieldType, enforcedConfigLevel) ==
    LET atResource ==
            IF enforcedConfigLevel = EnforcedConfigLevelResource
            THEN getFromPrunerConfigResourceLevel(namespacedSpec, namespace, name, resourceType, fieldType)
            ELSE Nil
        atNamespace ==
            IF enforcedConfigLevel \in {EnforcedConfigLevelResource, EnforcedConfigLevelNamespace}
               /\ IsNil(atResource)
            THEN NamespaceRootField(namespacedSpec, namespace, fieldType)
            ELSE atResource
        globalResource ==
            IF IsNil(atNamespace)
            THEN getFromPrunerConfigResourceLevel(globalSpec.namespaces, namespace, name, resourceType, fieldType)
            ELSE atNamespace
        globalNamespace ==
            IF IsNil(globalResource)
            THEN NamespaceRootField(globalSpec.namespaces, namespace, fieldType)
            ELSE globalResource
        globalRoot ==
            IF IsNil(globalNamespace) THEN FieldOf(globalSpec, fieldType) ELSE globalNamespace
    IN  IF enforcedConfigLevel \in {EnforcedConfigLevelResource, EnforcedConfigLevelNamespace,
                                    EnforcedConfigLevelGlobal}
        THEN globalRoot ELSE Nil

\* The method reads ps.globalConfig.Namespaces whatever map it is handed.
GetEnforcedConfigLevelFromNamespaceSpec(ps, namespacesSpec, namespace, name, resourceType) ==
    IF namespace \notin DOMAIN ps.globalConfig.namespaces THEN Nil
    ELSE LET namespaceSpec == ps.globalConfig.namespaces[namespace]
             hit == FirstNamed(ResourceSpecsOf(namespaceSpec, resourceType), name)
         IN  IF ~IsNil(hit) /\ ~IsNil(Val(hit).enforcedConfigLevel)
             THEN Val(hit).enforcedConfigLevel
             ELSE namespaceSpec.enforcedConfigLevel

getEnforcedConfigLevel(ps, namespace, name, resourceType) ==
    LET fromGlobal == GetEnforcedConfigLevelFromNamespaceSpec(
                          ps, ps.globalConfig.namespaces, namespace, name, resourceType)
        fromNamespaced == GetEnforcedConfigLevelFromNamespaceSpec(
                          ps, ps.namespacedConfig, namespace, name, resourceType)
    IN  IF ~IsNil(fromGlobal) THEN Val(fromGlobal)
        ELSE IF ~IsNil(ps.globalConfig.enforcedConfigLevel)
             THEN Val(ps.globalConfig.enforcedConfigLevel)
        ELSE IF ~IsNil(fromNamespaced) THEN Val(fromNamespaced)
        ELSE EnforcedConfigLevelResource

GetTaskEnforcedConfigLevel(ps, namespace, name) ==
    getEnforcedConfigLevel(ps, namespace, name, PrunerResourceTypeTaskRun)

GetTaskTTLSecondsAfterFinishedOfSuccess(ps, namespace, name) ==
    getResourceFieldData(ps.namespacedConfig, ps.globalConfig, namespace, name,
        PrunerResourceTypeTaskRun, PrunerFieldTypeSuccessfulHistoryLimit,
        GetTaskEnforcedConfigLevel(ps, namespace, name))

GetTaskTTLSecondsAfterFinished(ps, namespace, name) ==
    getResourceFieldData(ps.namespacedConfig, ps.globalConfig, namespace, name,
        PrunerResourceTypeTaskRun, PrunerFieldTypeTTLSecondsAfterFinished,
        GetTaskEnforcedConfigLevel(ps, namespace, name))

GetTaskSuccessHistoryLimitCount(ps, namespace, name) ==
    getResourceFieldData(ps.namespacedConfig, ps.globalConfig, namespace, name,
        PrunerResourceTypeTaskRun, PrunerFieldTypeSuccessfulHistoryLimit,
        GetTaskEnforcedConfigLevel(ps, namespace, name))

GetTaskFailedHistoryLimitCountOfSuccess(ps, namespace, name) ==
    GetTaskSuccessHistoryLimitCount(ps, namespace, name)

GetTaskFailedHistoryLimitCount(ps, namespace, name) ==
    getResourceFieldData(ps.namespacedConfig, ps.globalConfig, namespace, name,
        PrunerResourceTypeTaskRun, PrunerFieldTypeFailedHistoryLimit,
        GetTaskEnforcedConfigLevel(ps, namespace, name))

GetPipelineEnforcedConfigLevel(ps, namespace, name) ==
    getEnforcedConfigLevel(ps, namespace, name, PrunerResourceTypePipelineRun)

GetPipelineTTLSecondsAfterFinished(ps, namespace, name) ==
    getResourceFieldData(ps.namespacedConfig, ps.globalConfig, namespace, name,
        PrunerResourceTypePipelineRun, PrunerFieldTypeTTLSecondsAfterFinished,
        GetPipelineEnforcedConfigLevel(ps, namespace, name))

GetPipelineSuccessHistoryLimitCount(ps, namespace, name) ==
    getResourceFieldData(ps.namespacedConfig, ps.globalConfig, namespace, name,
        PrunerResourceTypePipelineRun, PrunerFieldTypeSuccessfulHistoryLimit,
        GetPipelineEnforcedConfigLevel(ps, namespace, name))

GetPipelineFailedHistoryLimitCount(ps, namespace, name) ==
    getResourceFieldData(ps.namespacedConfig, ps.globalConfig, namespace, name,
        PrunerResourceTypePipelineRun, PrunerFieldTypeFailedHistoryLimit,
        GetPipelineEnforcedConfigLevel(ps, namespace, name))

\* A config map: no policy text, text that is not YAML, or a document.
ConfigMapOf(kind, doc) == [kind |-> kind, doc |-> doc]

LoadGlobalConfigClearsOnError(ps, configMap) ==
    IF configMap.kind = "malformed"
    THEN [err |-> TRUE, ps |-> [globalConfig |-> EmptyConfig,
                                namespacedConfig |-> ps.namespacedConfig]]
    ELSE [err |-> FALSE,
          ps |-> [globalConfig |-> IF configMap.kind = "doc" THEN configMap.doc ELSE EmptyConfig,
                  namespacedConfig |-> ps.namespacedConfig]]

\* LoadGlobalConfig: [err, ps].  A parse error returns before any write.
LoadGlobalConfig(ps, configMap) ==
    IF configMap.kind = "malformed" THEN [err |-> TRUE, ps |-> ps]
    ELSE [err |-> FALSE,
          ps |-> [globalConfig |-> IF configMap.kind = "doc" THEN configMap.doc ELSE EmptyConfig,
                  namespacedConfig |-> ps.namespacedConfig]]

DeleteNamespacedSpecClearsAll(ps, namespace) ==
    [ps EXCEPT !.namespacedConfig = NoNamespaces]

\* DeleteNamespacedSpec: delete(ps.namespacedConfig, namespace).
DeleteNamespacedSpec(ps, namespace) ==
    [ps EXCEPT !.namespacedConfig =
        [n \in (DOMAIN ps.namespacedConfig) \ {namespace} |-> ps.namespacedConfig[n]]]

\* The singleton as the package initialises it; its maps are nil (empty).
PrunerConfigStore ==
    [globalConfig |-> PrunerConfig(Nil, Nil, Nil, Nil, NoNamespaces),
     namespacedConfig |-> NoNamespaces]

---------------------------------------------------------------------------
(* A TaskRun, and the TaskRun adapter TrFuncs                              *)

ConditionUnknown == "Unknown"
ConditionTrue == "True"
ConditionFalse == "False"
TaskRunReasonSuccessful == "Succeeded"
TaskRunReasonFailed == "Failed"
TaskRunReasonRunning == "Running"

\* The Succeeded condition: status, reason and last transition time (zero
\* when unset).
Condition(status, reason, at) ==
    [status |-> status, reason |-> reason, lastTransitionTime |-> at]

\* A TaskRun as created and started: labelled with its task, running.
NewTaskRun(task, owned) ==
    [exists |-> TRUE,
     hasLabels |-> TRUE,
     task |-> task,                         \* label tekton.dev/task
     owned |-> owned,                       \* has a PipelineRun owner reference
     startTime |-> Some(0),
     completionTime |-> Nil,
     condition |-> Some(Condition(ConditionUnknown, TaskRunReasonRunning, Some(0))),
     ttlSecondsAfterFinished |-> Nil,       \* annotation pruner.tekton.dev/ttlSecondsAfterFinished
     ttlScheduleAt |-> Nil,                 \* annotation pruner.tekton.dev/ttl-schedule-at
     historyCheckedAt |-> Nil]              \* annotation pruner.tekton.dev/history-checked-at

GetCompletionTimeOfStart(tr) ==
    [err |-> FALSE, time |-> Val(tr.startTime)]

GetCompletionTimeConditionFirst(tr) ==
    IF ~IsNil(tr.condition) /\ Val(tr.condition).status # ConditionUnknown
       /\ ~IsNil(Val(tr.condition).lastTransitionTime)
    THEN [err |-> FALSE, time |-> Val(Val(tr.condition).lastTransitionTime)]
    ELSE IF ~IsNil(tr.completionTime) THEN [err |-> FALSE, time |-> Val(tr.completionTime)]
    ELSE [err |-> TRUE, time |-> 0]

\* GetCompletionTime: [err, time].
GetCompletionTime(tr) ==
    IF ~IsNil(tr.completionTime) THEN [err |-> FALSE, time |-> Val(tr.completionTime)]
    ELSE IF ~IsNil(tr.condition) /\ Val(tr.condition).status # ConditionUnknown
         THEN IF IsNil(Val(tr.condition).lastTransitionTime)
              THEN [err |-> TRUE, time |-> 0]
              ELSE [err |-> FALSE, time |-> Val(Val(tr.condition).lastTransitionTime)]
    ELSE [err |-> TRUE, time |-> 0]

Ignore(tr) ==
    ~tr.hasLabels /\ IsNil(tr.ttlSecondsAfterFinished)

IsCompletedNoConditionCheck(tr) ==
    ~IsNil(tr.startTime)

IsCompleted(tr) ==
    IF IsNil(tr.startTime) THEN FALSE
    ELSE IF ~IsNil(tr.completionTime) THEN TRUE
    ELSE IF IsNil(tr.condition) \/ Val(tr.condition).status = ConditionUnknown THEN FALSE
    ELSE TRUE

IsSuccessful(tr) ==
    IF IsNil(tr.condition) THEN FALSE
    ELSE Val(tr.condition).reason = TaskRunReasonSuccessful

IsFailedNotNegated(tr) == IsSuccessful(tr)

IsFailed(tr) == ~IsSuccessful(tr)

\* HasPipelineRunOwnerReference, as cleanupTRs asks it.
HasPipelineRunOwnerReference(tr) == tr.owned

isStandaloneTaskRunOfPipelineRun(tr) == tr.owned

\* The reconciler's test that a TaskRun is not part of a PipelineRun.
isStandaloneTaskRun(tr) == ~tr.owned

\* List with a label selector on the task label: the names, as the API
\* server holds them at the call.
List(objs, task) == {r \in DOMAIN objs : objs[r].exists /\ objs[r].hasLabels /\ objs[r].task = task}

DeleteMissingSucceeds(objs, name) ==
    [notFound |-> FALSE, objs |-> [objs EXCEPT ![name].exists = FALSE]]

\* Delete: [notFound, objs].  The client's answer is returned as it is.
Delete(objs, name) ==
    IF objs[name].exists
    THEN [notFound |-> FALSE, objs |-> [objs EXCEPT ![name].exists = FALSE]]
    ELSE [notFound |-> TRUE, objs |-> objs]

---------------------------------------------------------------------------
(* The history limiter, from the design document (4.4): the Runs of the    *)
(* input Run's family that one call deletes, in the order it deletes them. *)

\* x sorts before y: newest first, ties by name ascending.
SortsBefore(objs, x, y) ==
    LET tx == GetCompletionTime(objs[x]).time
        ty == GetCompletionTime(objs[y]).time
    IN  tx > ty \/ (tx = ty /\ x < y)

\* S as a sequence, newest first.
SortNewestFirst(objs, S) ==
    [i \in 1..Cardinality(S) |->
        CHOOSE x \in S : Cardinality({y \in S : SortsBefore(objs, y, x)}) = i - 1]

OverflowNewest(sorted, limit) ==
    IF IsNil(limit) \/ Val(limit) < 0 \/ Len(sorted) <= Val(limit) THEN <<>>
    ELSE SubSeq(sorted, 1, Len(sorted) - Val(limit))

\* The entries past the limit; none when the limit is missing or -1.
Overflow(sorted, limit) ==
    IF IsNil(limit) \/ Val(limit) < 0 THEN <<>>
    ELSE SubSeq(sorted, Val(limit) + 1, Len(sorted))

\* The family as the limiter counts it: listed by the task label, completed,
\* not owned by a PipelineRun.
Siblings(objs, task) ==
    {r \in List(objs, task) : IsCompleted(objs[r]) /\ ~objs[r].owned}

\* The deletes of one call: the successful overflow, then the failed one.
HistoryOverflow(objs, task, succLimit, failLimit) ==
    LET sib == Siblings(objs, task)
        succ == SortNewestFirst(objs, {r \in sib : IsSuccessful(objs[r])})
        fail == SortNewestFirst(objs, {r \in sib : IsFailed(objs[r])})
    IN  Overflow(succ, succLimit) \o Overflow(fail, failLimit)

\* Whether the limiter evaluates the input Run at all: it is labelled,
\* completed, and carries no history-checked-at stamp.
HistoryApplies(tr) ==
    ~Ignore(tr) /\ IsCompleted(tr) /\ IsNil(tr.historyCheckedAt)

---------------------------------------------------------------------------
(* The TTL handler, from the design document (4.3)                         *)

\* Whether the handler looks at the input Run at all.
TTLApplies(tr) == ~Ignore(tr) /\ IsCompleted(tr)

\* An effective TTL that schedules: defined and not -1.
TTLEnabled(ttl) == ~IsNil(ttl) /\ Val(ttl) # -1

\* dueAt = completedAt + TTL, in seconds.
DueAt(completedAt, ttl) == completedAt + ttl

\* The clock has reached the scheduled time.
Expired(clock, dueAt) == clock >= ParseRFC3339(dueAt)

\* Unmarked: the Run carries no ttl-schedule-at.
Unmarked(tr) == IsNil(tr.ttlScheduleAt)

---------------------------------------------------------------------------
(* The namespace the model watches, its one task, and the policy documents *)
(* the config map takes.                                                   *)

TheNamespace == "ns1"
TheTask == "t1"

RootDocument(ttl, succ, fail) == PrunerConfig(Nil, ttl, succ, fail, NoNamespaces)

\* A document that sets the limits of the task at the resource level of the
\* namespace's entry and the TTL at the namespace's root.
TaskDocument(ttl, succ, fail) ==
    PrunerConfig(Nil, Nil, Nil, Nil,
        [n \in {TheNamespace} |->
            PrunerResourceSpec(Nil, ttl, Nil, Nil, <<>>,
                <<ResourceSpec(TheTask, Nil, Nil, succ, fail)>>)])

StartupDocument == RootDocument(Some(0), Some(1), Some(-1))

Documents ==
    { StartupDocument,
      TaskDocument(Some(1), Some(0), Some(1)) }

ConfigMaps ==
    {ConfigMapOf("doc", d) : d \in Documents} \cup {ConfigMapOf("malformed", EmptyConfig)}

---------------------------------------------------------------------------
(* The passes: the event reconciler and the sweep each run History then    *)
(* TTL on a copy of a Run.  A step holds at most one call to the API       *)
(* server or one access to the policy store.                               *)

Workers == {"event", "sweep"}

NoRun == NewTaskRun(TheTask, FALSE)

\* after: the delay, in ticks of the clock, of the requeue the last pass
\* returned; 0 when it returned nil or an error.
IdlePass == [pc |-> "idle", r |-> 0, snap |-> NoRun, todo |-> <<>>, due |-> 0,
             fresh |-> FALSE, after |-> 0]

StartPass(r, tr) == [IdlePass EXCEPT !.pc = "history", !.r = r, !.snap = tr]

SweepIdle == [pc |-> "idle", list |-> <<>>, idx |-> 0, updateTime |-> 0, loads |-> 0]

FinishErrorAsNil(w, result, after) ==
    /\ pass' = [pass EXCEPT ![w] = [IdlePass EXCEPT !.after = after]]
    /\ sweep' = IF w # "sweep" THEN sweep ELSE [sweep EXCEPT !.idx = @ + 1]
    /\ obs' = obs

FinishLogsRequeue(w, result, after) ==
    /\ pass' = [pass EXCEPT ![w] = [IdlePass EXCEPT !.after = after]]
    /\ sweep' = IF w # "sweep" THEN sweep
                ELSE IF result = "nil" THEN [sweep EXCEPT !.idx = @ + 1]
                ELSE [SweepIdle EXCEPT !.loads = sweep.loads]
    /\ obs' = IF result # "nil" THEN [obs EXCEPT !.error = TRUE] ELSE obs

\* A pass returns: ReconcileKind returns the result to the host; cleanupTRs
\* goes on to the next item on nil and returns on any error, a requeue
\* included.  Only an error that is not a requeue is logged as an error.
Finish(w, result, after) ==
    /\ pass' = [pass EXCEPT ![w] = [IdlePass EXCEPT !.after = after]]
    /\ sweep' = IF w # "sweep" THEN sweep
                ELSE IF result = "nil" THEN [sweep EXCEPT !.idx = @ + 1]
                ELSE [SweepIdle EXCEPT !.loads = sweep.loads]
    /\ obs' = IF result = "error" THEN [obs EXCEPT !.error = TRUE] ELSE obs

\* Something the family's count depends on changed: evaluations in flight
\* are stale.
Stale(p) == [w \in Workers |-> [p[w] EXCEPT !.fresh = FALSE]]

DeleteCall(op, name, notFound) ==
    [op |-> op, run |-> name, notFound |-> notFound]

---------------------------------------------------------------------------
(* The environment: the clock, and TaskRuns finishing                      *)

Tick ==
    /\ now < MaxClock
    /\ now' = now + 1
    /\ UNCHANGED <<runs, store, pass, sweep, calls, obs, gc, gcEvents, fam, call, mu, fan, met>>

\* A running TaskRun finishes: Tekton sets the Succeeded condition and the
\* completion time.
Complete(r, status) ==
    /\ runs[r].exists
    /\ ~IsCompleted(runs[r])
    /\ LET at == FormatRFC3339(now)
           reason == IF status = ConditionTrue THEN TaskRunReasonSuccessful
                     ELSE TaskRunReasonFailed
       IN  runs' = [runs EXCEPT
                      ![r].condition = Some(Condition(status, reason, Some(at))),
                      ![r].completionTime = Some(at)]
    /\ pass' = Stale(pass)
    /\ obs' = [obs EXCEPT !.settled = FALSE]
    /\ UNCHANGED <<now, store, sweep, calls, gc, gcEvents, fam, call, mu, fan, met>>

---------------------------------------------------------------------------
(* HistoryLimiter.ProcessEvent, step by step                               *)

\* Look up the limits, list the family, work out the overflow.
HistoryEvaluate(w, r, tr) ==
    LET todo == HistoryOverflow(runs, tr.task,
                    GetTaskSuccessHistoryLimitCount(store, TheNamespace, tr.task),
                    GetTaskFailedHistoryLimitCount(store, TheNamespace, tr.task))
    IN  IF ~HistoryApplies(tr)
        THEN /\ pass' = [pass EXCEPT ![w] = [StartPass(r, tr) EXCEPT !.pc = "ttl"]]
             /\ obs' = obs
        ELSE /\ pass' = [pass EXCEPT ![w] =
                           [StartPass(r, tr) EXCEPT
                               !.pc = IF todo = <<>> THEN "histStamp" ELSE "histDelete",
                               !.todo = todo,
                               !.fresh = TRUE]]
             /\ obs' = IF todo = <<>> THEN [obs EXCEPT !.settled = TRUE] ELSE obs

\* The sweep's call of the limiter on the listed copy.
HistoryProcessEvent ==
    /\ pass["sweep"].pc = "history"
    /\ HistoryEvaluate("sweep", pass["sweep"].r, pass["sweep"].snap)
    /\ UNCHANGED <<now, runs, store, sweep, calls, gc, gcEvents, fam, call, mu, fan, met>>

\* Delete the next overflow entry; a 404 counts as done.
HistoryDelete(w) ==
    /\ pass[w].pc = "histDelete"
    /\ LET name == Head(pass[w].todo)
           rest == Tail(pass[w].todo)
           d == Delete(runs, name)
       IN  /\ runs' = d.objs
           /\ calls' = calls \cup {DeleteCall("history", name, d.notFound)}
           /\ pass' = [pass EXCEPT ![w].todo = rest,
                                   ![w].pc = IF rest = <<>> THEN "histStamp" ELSE "histDelete"]
           /\ obs' = IF rest = <<>> /\ pass[w].fresh
                     THEN [obs EXCEPT !.settled = TRUE] ELSE obs
    /\ UNCHANGED <<now, store, sweep, gc, gcEvents, fam, call, mu, fan, met>>

\* Stamp the input Run, if it is still there, with history-checked-at.
HistoryStamp(w) ==
    /\ pass[w].pc = "histStamp"
    /\ LET r == pass[w].r
       IN  runs' = IF runs[r].exists
                   THEN [runs EXCEPT ![r].historyCheckedAt = Some(FormatRFC3339(now))]
                   ELSE runs
    /\ pass' = [pass EXCEPT ![w].pc = "ttl"]
    /\ UNCHANGED <<now, store, sweep, calls, obs, gc, gcEvents, fam, call, mu, fan, met>>

\* The API server answers a delete or the stamp of the limiter with an
\* error: nothing changes on the server and the limiter returns the error.
HistoryFails(w) ==
    /\ pass[w].pc \in {"histDelete", "histStamp"}
    /\ Finish(w, "error", 0)
    /\ UNCHANGED <<now, runs, store, calls, gc, gcEvents, fam, call, mu, fan, met>>

---------------------------------------------------------------------------
(* The event reconciler: Reconciler.ReconcileKind for a TaskRun.  The host *)
(* hands it the TaskRun of an add or update event; it returns at once for  *)
(* a TaskRun of a PipelineRun and calls the history limiter otherwise.     *)

ReconcileKindTTLFirst(r) ==
    /\ pass["event"].pc = "idle"
    /\ runs[r].exists
    /\ IF ~isStandaloneTaskRun(runs[r])
       THEN UNCHANGED <<pass, obs>>
       ELSE /\ pass' = [pass EXCEPT !["event"] = [StartPass(r, runs[r]) EXCEPT !.pc = "ttl"]]
            /\ obs' = obs
    /\ UNCHANGED <<now, runs, store, sweep, calls, gc, gcEvents, fam, call, mu, fan, met>>

ReconcileKind(r) ==
    /\ pass["event"].pc = "idle"
    /\ runs[r].exists
    /\ IF ~isStandaloneTaskRun(runs[r])
       THEN UNCHANGED <<pass, obs>>
       ELSE HistoryEvaluate("event", r, runs[r])
    /\ UNCHANGED <<now, runs, store, sweep, calls, gc, gcEvents, fam, call, mu, fan, met>>

---------------------------------------------------------------------------
(* TTLHandler.ProcessEvent, step by step                                   *)

\* Scheduled: requeue while the clock has not reached dueAt, else go on to
\* the delete.
TTLDecide(w, dueAt) ==
    IF Expired(now, dueAt)
    THEN /\ pass' = [pass EXCEPT ![w].pc = "ttlDelete", ![w].due = dueAt]
         /\ UNCHANGED <<sweep, obs>>
    ELSE Finish(w, "requeue", ParseRFC3339(dueAt) - now)

\* Unmarked: work out dueAt from the effective TTL.  Scheduled: decide.
TTLProcessEvent(w) ==
    /\ pass[w].pc = "ttl"
    /\ LET tr == pass[w].snap
           ttl == GetTaskTTLSecondsAfterFinished(store, TheNamespace, tr.task)
           completedAt == GetCompletionTime(tr)
       IN  IF ~TTLApplies(tr) THEN Finish(w, "nil", 0)
           ELSE IF ~Unmarked(tr) THEN TTLDecide(w, Val(tr.ttlScheduleAt))
           ELSE IF ~TTLEnabled(ttl) THEN Finish(w, "nil", 0)
           ELSE IF completedAt.err THEN Finish(w, "error", 0)
           ELSE /\ pass' = [pass EXCEPT ![w].pc = "ttlPatch",
                                        ![w].due = DueAt(completedAt.time, Val(ttl))]
                /\ UNCHANGED <<sweep, obs>>
    /\ UNCHANGED <<now, runs, store, calls, gc, gcEvents, fam, call, mu, fan, met>>

\* Patch ttl-schedule-at onto the Run (a 404 ends the pass), then decide.
TTLPatch(w) ==
    /\ pass[w].pc = "ttlPatch"
    /\ LET r == pass[w].r
       IN  IF ~runs[r].exists
           THEN Finish(w, "nil", 0) /\ runs' = runs
           ELSE /\ runs' = [runs EXCEPT ![r].ttlScheduleAt = Some(pass[w].due)]
                /\ TTLDecide(w, pass[w].due)
    /\ UNCHANGED <<now, store, calls, gc, gcEvents, fam, call, mu, fan, met>>

\* Expiring: delete; a 404 counts as deleted.
TTLDelete(w) ==
    /\ pass[w].pc = "ttlDelete"
    /\ LET d == Delete(runs, pass[w].r)
       IN  /\ runs' = d.objs
           /\ calls' = calls \cup {DeleteCall("ttl", pass[w].r, d.notFound)}
    /\ Finish(w, "nil", 0)
    /\ UNCHANGED <<now, store, gc, gcEvents, fam, call, mu, fan, met>>

\* Expiring, and the API server answers the delete with a retryable error:
\* nothing changes on the server and the handler returns the error.
TTLDeleteFails(w) ==
    /\ pass[w].pc = "ttlDelete"
    /\ runs[pass[w].r].exists
    /\ Finish(w, "error", 0)
    /\ UNCHANGED <<now, runs, store, calls, gc, gcEvents, fam, call, mu, fan, met>>

---------------------------------------------------------------------------
(* The sweep: runGarbageCollector and cleanupTRs                           *)

\* updateTime.After(annotationTime), both parsed from RFC3339 text.
After(updateTime, annotationTime) ==
    ParseRFC3339(updateTime) > ParseRFC3339(annotationTime)

\* runGarbageCollector up to the fan-out: reload the policy, note the time.
\* A load error returns before anything else is done.
SweepLoad(configMap) ==
    /\ sweep.pc = "idle"
    /\ pass["sweep"].pc = "idle"
    /\ sweep.loads < MaxLoads
    /\ LET res == LoadGlobalConfig(store, configMap)
       IN  IF res.err
           THEN /\ sweep' = [sweep EXCEPT !.loads = @ + 1]
                /\ UNCHANGED <<store, pass, obs>>
           ELSE /\ store' = res.ps
                /\ sweep' = [sweep EXCEPT !.pc = "list", !.loads = @ + 1,
                                          !.updateTime = FormatRFC3339(now)]
                /\ pass' = Stale(pass)
                /\ obs' = [obs EXCEPT !.settled = FALSE]
    /\ UNCHANGED <<now, runs, calls, gc, gcEvents, fam, call, mu, fan, met>>

\* cleanupTRs lists the TaskRuns of the namespace.
SweepList ==
    /\ sweep.pc = "list"
    /\ LET names == {r \in DOMAIN runs : runs[r].exists}
           ordered == [i \in 1..Cardinality(names) |->
                          CHOOSE r \in names : Cardinality({q \in names : q < r}) = i - 1]
       IN  sweep' = [sweep EXCEPT !.pc = "loop", !.idx = 1,
                        !.list = [i \in DOMAIN ordered |->
                                     [name |-> ordered[i], obj |-> runs[ordered[i]]]]]
    /\ UNCHANGED <<now, runs, store, pass, calls, obs, gc, gcEvents, fam, call, mu, fan, met>>

SweepSelectsOwned(tr) == ~IsNil(tr.completionTime)

\* The test cleanupTRs makes before it handles a listed TaskRun.
SweepSelects(tr) == ~IsNil(tr.completionTime) /\ ~HasPipelineRunOwnerReference(tr)

SweepNextUpdatesListedCopy ==
    /\ sweep.pc = "loop"
    /\ pass["sweep"].pc = "idle"
    /\ IF sweep.idx > Len(sweep.list)
       THEN /\ sweep' = [SweepIdle EXCEPT !.loads = sweep.loads]
            /\ UNCHANGED <<runs, pass, obs>>
       ELSE LET name == sweep.list[sweep.idx].name
                tr == sweep.list[sweep.idx].obj
                strip == /\ ~IsNil(tr.historyCheckedAt)
                         /\ After(sweep.updateTime, Val(tr.historyCheckedAt))
            IN  IF ~SweepSelects(tr) \/ ~runs[name].exists
                THEN /\ sweep' = [sweep EXCEPT !.idx = @ + 1]
                     /\ UNCHANGED <<runs, pass, obs>>
                ELSE /\ runs' = IF strip
                                THEN [runs EXCEPT ![name] = [tr EXCEPT !.historyCheckedAt = Nil]]
                                ELSE runs
                     /\ pass' = [pass EXCEPT !["sweep"] = StartPass(name, tr)]
                     /\ UNCHANGED <<sweep, obs>>
    /\ UNCHANGED <<now, store, calls, gc, gcEvents, fam, call, mu, fan, met>>

SweepNextClearsSchedule ==
    /\ sweep.pc = "loop"
    /\ pass["sweep"].pc = "idle"
    /\ IF sweep.idx > Len(sweep.list)
       THEN /\ sweep' = [SweepIdle EXCEPT !.loads = sweep.loads]
            /\ UNCHANGED <<runs, pass, obs>>
       ELSE LET name == sweep.list[sweep.idx].name
                tr == sweep.list[sweep.idx].obj
            IN  IF ~SweepSelects(tr) \/ ~runs[name].exists
                THEN /\ sweep' = [sweep EXCEPT !.idx = @ + 1]
                     /\ UNCHANGED <<runs, pass, obs>>
                ELSE /\ runs' = [runs EXCEPT ![name].historyCheckedAt = Nil,
                                             ![name].ttlScheduleAt = Nil]
                     /\ pass' = [pass EXCEPT !["sweep"] =
                                     StartPass(name, [tr EXCEPT !.ttlScheduleAt = Nil])]
                     /\ UNCHANGED <<sweep, obs>>
    /\ UNCHANGED <<now, store, calls, gc, gcEvents, fam, call, mu, fan, met>>

\* The loop of cleanupTRs: skip, return the error of a history-checked-at
\* that does not parse as RFC3339 (a negative value stands for such text), or
\* strip a stale history-checked-at from the object on the server and hand
\* the listed copy to History then TTL.
SweepNext ==
    /\ sweep.pc = "loop"
    /\ pass["sweep"].pc = "idle"
    /\ IF sweep.idx > Len(sweep.list)
       THEN /\ sweep' = [SweepIdle EXCEPT !.loads = sweep.loads]
            /\ UNCHANGED <<runs, pass, obs>>
       ELSE LET name == sweep.list[sweep.idx].name
                tr == sweep.list[sweep.idx].obj
                unparsed == ~IsNil(tr.historyCheckedAt) /\ Val(tr.historyCheckedAt) < 0
                strip == /\ ~IsNil(tr.historyCheckedAt)
                         /\ After(sweep.updateTime, Val(tr.historyCheckedAt))
            IN  IF ~SweepSelects(tr)
                THEN /\ sweep' = [sweep EXCEPT !.idx = @ + 1]
                     /\ UNCHANGED <<runs, pass, obs>>
                ELSE IF unparsed
                THEN /\ sweep' = [SweepIdle EXCEPT !.loads = sweep.loads]
                     /\ obs' = [obs EXCEPT !.error = TRUE]
                     /\ UNCHANGED <<runs, pass>>
                ELSE IF strip /\ ~runs[name].exists
                THEN /\ sweep' = [sweep EXCEPT !.idx = @ + 1]
                     /\ UNCHANGED <<runs, pass, obs>>
                ELSE /\ runs' = IF strip THEN [runs EXCEPT ![name].historyCheckedAt = Nil]
                                ELSE runs
                     /\ pass' = [pass EXCEPT !["sweep"] = StartPass(name, tr)]
                     /\ UNCHANGED <<sweep, obs>>
    /\ UNCHANGED <<now, store, calls, gc, gcEvents, fam, call, mu, fan, met>>

---------------------------------------------------------------------------
(* The controller at work: TaskRuns finish, events are reconciled, config  *)
(* changes start sweeps.                                                   *)

GcIdle == [g \in 1..MaxGcEvents |-> [pc |-> "none", mutex |-> FALSE, during |-> {}]]

FamIdle == [objs |-> <<>>, succLimit |-> Nil, failLimit |-> Nil, deleted |-> <<>>, done |-> FALSE]

\* runGarbageCollector has not been entered: no config map fetched, no
\* namespace selected, no worker started, nothing reported.
FanIdle ==
    [pc |-> "start", configMap |-> Nil, namespaces |-> <<>>, sent |-> 0, closed |-> FALSE,
     workers |-> <<>>, log |-> <<>>, reported |-> {}]

\* No call on the policy store has been made.
NoCall == [op |-> "none"]

\* The keys of the Reporter's last-value maps: namespace and resource type
\* (the code joins the two with "|").
MetricKeys == {<<"", "namespace">>, <<"ns1", "namespace">>}

\* Package metrics before any call: no value recorded and nothing added to
\* the up-down counter, Setup not called, no HybridReporter constructed.
MetIdle ==
    [last |-> [k \in MetricKeys |-> 0],
     counter |-> [k \in MetricKeys |-> 0],
     mutex |-> 0,
     threads |-> [t \in 1..MaxGoroutines |->
                     [pc |-> "idle", key |-> <<"", "namespace">>, count |-> 0, delta |-> 0]],
     once |-> FALSE,
     globalReporter |-> FALSE,
     setups |-> {},
     wrapped |-> {},
     hr |-> [mu |-> 0, config |-> Nil, initialized |-> FALSE, metricsReporter |-> FALSE,
             errorReporter |-> FALSE, pc |-> [t \in 1..MaxGoroutines |-> "idle"]]]

\* The store's mutex is free and no goroutine is in a call on the store.
MuIdle == [holder |-> 0, threads |-> <<>>]

\* A TaskRun of a PipelineRun that finished, successfully, at time 0.
OwnedTaskRun ==
    [NewTaskRun(TheTask, TRUE) EXCEPT
        !.condition = Some(Condition(ConditionTrue, TaskRunReasonSuccessful, Some(0))),
        !.completionTime = Some(0)]

\* The namespace at start: running stand-alone TaskRuns and, last, a
\* finished TaskRun of a PipelineRun, all of the same task.
InitRuns == [r \in Runs |-> IF r = NumRuns THEN OwnedTaskRun ELSE NewTaskRun(TheTask, FALSE)]

Init ==
    /\ now = 0
    /\ runs = InitRuns
    /\ store = LoadGlobalConfig(PrunerConfigStore, ConfigMapOf("doc", StartupDocument)).ps
    /\ obs = [settled |-> FALSE, error |-> FALSE]
    /\ pass = [w \in Workers |-> IdlePass]
    /\ sweep = SweepIdle
    /\ calls = {}
    /\ gc = GcIdle
    /\ gcEvents = 0
    /\ fam = FamIdle
    /\ call = NoCall
    /\ mu = MuIdle
    /\ fan = FanIdle
    /\ met = MetIdle

Next ==
    \/ Tick
    \/ \E r \in DOMAIN runs, status \in {ConditionTrue, ConditionFalse} : Complete(r, status)
    \/ \E r \in DOMAIN runs : ReconcileKind(r)
    \/ HistoryProcessEvent
    \/ \E w \in Workers : HistoryDelete(w)
    \/ \E w \in Workers : HistoryStamp(w)
    \/ \E w \in Workers : TTLProcessEvent(w)
    \/ \E w \in Workers : TTLPatch(w)
    \/ \E w \in Workers : TTLDelete(w)
    \/ \E cm \in ConfigMaps : SweepLoad(cm)
    \/ SweepList
    \/ SweepNext

Spec == Init /\ [][Next]_vars

---------------------------------------------------------------------------
(* The history limiter at work on a family of stand-alone TaskRuns that    *)
(* finish at the same second, under policies that set no TTL.              *)

HistoryDocuments ==
    { RootDocument(Nil, Some(1), Some(-1)),
      TaskDocument(Nil, Some(0), Some(1)) }

InitHist ==
    /\ now = 0
    /\ runs = [r \in 1..HistRuns |-> NewTaskRun(TheTask, FALSE)]
    /\ store = LoadGlobalConfig(PrunerConfigStore,
                    ConfigMapOf("doc", RootDocument(Nil, Some(1), Some(-1)))).ps
    /\ obs = [settled |-> FALSE, error |-> FALSE]
    /\ pass = [w \in Workers |-> IdlePass]
    /\ sweep = SweepIdle
    /\ calls = {}
    /\ gc = GcIdle
    /\ gcEvents = 0
    /\ fam = FamIdle
    /\ call = NoCall
    /\ mu = MuIdle
    /\ fan = FanIdle
    /\ met = MetIdle

NextHist ==
    \/ \E r \in DOMAIN runs, status \in {ConditionTrue, ConditionFalse} : Complete(r, status)
    \/ \E r \in DOMAIN runs : ReconcileKind(r)
    \/ HistoryProcessEvent
    \/ \E w \in Workers : HistoryDelete(w)
    \/ \E w \in Workers : HistoryStamp(w)
    \/ \E w \in Workers : TTLProcessEvent(w)
    \/ \E d \in HistoryDocuments : SweepLoad(ConfigMapOf("doc", d))
    \/ SweepList
    \/ SweepNext

SpecHist == InitHist /\ [][NextHist]_vars

---------------------------------------------------------------------------
(* One call of the history limiter on a family, on its own: the family is  *)
(* any mix of running, successful and failed TaskRuns with completion      *)
(* times up to MaxStamp, the limits are any of nil, -1, 0 .. MaxLimit.     *)

FinishedTaskRun(status, at) ==
    [NewTaskRun(TheTask, FALSE) EXCEPT
        !.condition = Some(Condition(status,
                           IF status = ConditionTrue THEN TaskRunReasonSuccessful
                           ELSE TaskRunReasonFailed, Some(at))),
        !.completionTime = Some(at)]

FamilyMembers ==
    {NewTaskRun(TheTask, FALSE)} \cup
    {FinishedTaskRun(status, at) : status \in {ConditionTrue, ConditionFalse}, at \in 0..MaxStamp}

Limits == {Nil} \cup {Some(n) : n \in (-1)..MaxLimit}

InitFamily ==
    /\ now = 0
    /\ runs = InitRuns
    /\ store = PrunerConfigStore
    /\ obs = [settled |-> FALSE, error |-> FALSE]
    /\ pass = [w \in Workers |-> IdlePass]
    /\ sweep = SweepIdle
    /\ calls = {}
    /\ gc = GcIdle
    /\ gcEvents = 0
    /\ fam \in [objs : [1..MaxFamily -> FamilyMembers], succLimit : Limits,
                failLimit : Limits, deleted : {<<>>}, done : {FALSE}]
    /\ call = NoCall
    /\ mu = MuIdle
    /\ fan = FanIdle
    /\ met = MetIdle

\* The limiter's deletes for the family under the limits.
FamilyProcessEvent ==
    /\ ~fam.done
    /\ fam' = [fam EXCEPT !.deleted = HistoryOverflow(fam.objs, TheTask,
                                           fam.succLimit, fam.failLimit),
                          !.done = TRUE]
    /\ UNCHANGED <<now, runs, store, pass, sweep, calls, obs, gc, gcEvents, call, mu, fan, met>>

NextFamily == FamilyProcessEvent

SpecFamily == InitFamily /\ [][NextFamily]_vars

---------------------------------------------------------------------------
(* The config-map watcher: every change of the pruner's config map starts  *)
(* a goroutine that runs safeRunGarbageCollector.  gcMutex is a variable   *)
(* of the function, so every goroutine locks a mutex of its own.           *)

Goroutines == 1..MaxGcEvents

\* The goroutines inside runGarbageCollector.
InGarbageCollector == {g \in Goroutines : gc[g].pc \in {"load", "cleanup"}}

\* The goroutines that have called runGarbageCollector, returned or not.
EnteredGarbageCollector == {g \in Goroutines : gc[g].pc \in {"load", "cleanup", "unlock", "done"}}

ConfigMapChangedCoalesced ==
    /\ gcEvents < MaxGcEvents
    /\ gcEvents' = gcEvents + 1
    /\ gc' = IF \E g \in Goroutines : gc[g].pc \in {"lock", "load", "cleanup"}
             THEN gc
             ELSE [gc EXCEPT ![gcEvents + 1].pc = "lock",
                             ![gcEvents + 1].during = InGarbageCollector]
    /\ UNCHANGED <<now, runs, store, pass, sweep, calls, obs, fam, call, mu, fan, met>>

\* The watcher's callback: go safeRunGarbageCollector(ctx, logger).  during
\* notes the executions of runGarbageCollector in progress at the event.
ConfigMapChanged ==
    /\ gcEvents < MaxGcEvents
    /\ gcEvents' = gcEvents + 1
    /\ gc' = [gc EXCEPT ![gcEvents + 1].pc = "lock",
                        ![gcEvents + 1].during = InGarbageCollector]
    /\ UNCHANGED <<now, runs, store, pass, sweep, calls, obs, fam, call, mu, fan, met>>

\* var gcMutex sync.Mutex; gcMutex.Lock(): the goroutine's own mutex, which
\* nobody else can hold.
GcLock(g) ==
    /\ gc[g].pc = "lock"
    /\ ~gc[g].mutex
    /\ gc' = [gc EXCEPT ![g].pc = "load", ![g].mutex = TRUE]
    /\ UNCHANGED <<now, runs, store, pass, sweep, calls, obs, gcEvents, fam, call, mu, fan, met>>

\* runGarbageCollector up to the fan-out: get and load the config map; a
\* failure returns.
GcLoad(g, ok) ==
    /\ gc[g].pc = "load"
    /\ gc' = [gc EXCEPT ![g].pc = IF ok THEN "cleanup" ELSE "unlock"]
    /\ UNCHANGED <<now, runs, store, pass, sweep, calls, obs, gcEvents, fam, call, mu, fan, met>>

\* The workers have cleaned every namespace; runGarbageCollector returns.
GcCleanup(g) ==
    /\ gc[g].pc = "cleanup"
    /\ gc' = [gc EXCEPT ![g].pc = "unlock"]
    /\ UNCHANGED <<now, runs, store, pass, sweep, calls, obs, gcEvents, fam, call, mu, fan, met>>

\* defer gcMutex.Unlock()
GcUnlock(g) ==
    /\ gc[g].pc = "unlock"
    /\ gc' = [gc EXCEPT ![g].pc = "done", ![g].mutex = FALSE]
    /\ UNCHANGED <<now, runs, store, pass, sweep, calls, obs, gcEvents, fam, call, mu, fan, met>>

InitGC ==
    /\ now = 0
    /\ runs = InitRuns
    /\ store = PrunerConfigStore
    /\ obs = [settled |-> FALSE, error |-> FALSE]
    /\ pass = [w \in Workers |-> IdlePass]
    /\ sweep = SweepIdle
    /\ calls = {}
    /\ gc = GcIdle
    /\ gcEvents = 0
    /\ fam = FamIdle
    /\ call = NoCall
    /\ mu = MuIdle
    /\ fan = FanIdle
    /\ met = MetIdle

NextGC ==
    \/ ConfigMapChanged
    \/ \E g \in Goroutines : GcLock(g)
    \/ \E g \in Goroutines, ok \in BOOLEAN : GcLoad(g, ok)
    \/ \E g \in Goroutines : GcCleanup(g)
    \/ \E g \in Goroutines : GcUnlock(g)

SpecGC == InitGC /\ [][NextGC]_vars

---------------------------------------------------------------------------
(* The TTL handler at work on one stand-alone TaskRun under a policy that  *)
(* does not change: the TTL is undefined, -1 or 0 .. MaxTTL seconds, and   *)
(* one Run of a class may stay.  The reconciler and one sweep, which has   *)
(* loaded the policy, hand the Run to History then TTL; the API server may *)
(* answer a stamp or a delete with a retryable error.                      *)

TTLDocuments == {RootDocument(ttl, Some(1), Nil) : ttl \in {Nil} \cup {Some(t) : t \in (-1)..MaxTTL}}

InitTTL ==
    /\ now = 0
    /\ runs = [r \in {1} |-> NewTaskRun(TheTask, FALSE)]
    /\ \E d \in TTLDocuments :
          store = LoadGlobalConfig(PrunerConfigStore, ConfigMapOf("doc", d)).ps
    /\ obs = [settled |-> FALSE, error |-> FALSE]
    /\ pass = [w \in Workers |-> IdlePass]
    /\ sweep = [SweepIdle EXCEPT !.pc = "list", !.loads = MaxLoads]
    /\ calls = {}
    /\ gc = GcIdle
    /\ gcEvents = 0
    /\ fam = FamIdle
    /\ call = NoCall
    /\ mu = MuIdle
    /\ fan = FanIdle
    /\ met = MetIdle

NextTTL ==
    \/ Tick
    \/ \E r \in DOMAIN runs, status \in {ConditionTrue, ConditionFalse} : Complete(r, status)
    \/ \E r \in DOMAIN runs : ReconcileKind(r)
    \/ HistoryProcessEvent
    \/ \E w \in Workers : HistoryStamp(w)
    \/ \E w \in Workers : HistoryFails(w)
    \/ \E w \in Workers : TTLProcessEvent(w)
    \/ \E w \in Workers : TTLPatch(w)
    \/ \E w \in Workers : TTLDelete(w)
    \/ \E w \in Workers : TTLDeleteFails(w)
    \/ SweepList
    \/ SweepNext

SpecTTL == InitTTL /\ [][NextTTL]_vars

\* The fair runs: the clock advances, the host hands a Run's key to the
\* reconciler again and again (on events, after each requeue delay, after
\* each error), a pass that can take its next step takes it, and a stamp
\* or a delete that is tried again and again is answered without an error
\* in the end.
SpecTTLLive ==
    /\ SpecTTL
    /\ WF_vars(Tick)
    /\ WF_vars(\E r \in DOMAIN runs : ReconcileKind(r))
    /\ WF_vars(HistoryProcessEvent)
    /\ WF_vars(SweepList)
    /\ WF_vars(SweepNext)
    /\ \A w \in Workers :
          /\ SF_vars(HistoryStamp(w))
          /\ WF_vars(TTLProcessEvent(w))
          /\ WF_vars(TTLPatch(w))
          /\ SF_vars(TTLDelete(w))

---------------------------------------------------------------------------
(* One sweep of a namespace with two stand-alone TaskRuns, under a TTL of  *)
(* 0 .. MaxTTL seconds and no history limits.  The first TaskRun may carry *)
(* a history-checked-at that someone has edited into text that is not      *)
(* RFC3339.                                                                *)

InitSweep ==
    /\ now = 0
    /\ \E h \in {Nil, Some(-1)} :
          runs = [r \in {1, 2} |->
                     [NewTaskRun(TheTask, FALSE) EXCEPT
                         !.historyCheckedAt = IF r = 1 THEN h ELSE Nil]]
    /\ \E ttl \in 0..MaxTTL :
          store = LoadGlobalConfig(PrunerConfigStore,
                      ConfigMapOf("doc", RootDocument(Some(ttl), Nil, Nil))).ps
    /\ obs = [settled |-> FALSE, error |-> FALSE]
    /\ pass = [w \in Workers |-> IdlePass]
    /\ sweep = [SweepIdle EXCEPT !.pc = "list", !.loads = MaxLoads]
    /\ calls = {}
    /\ gc = GcIdle
    /\ gcEvents = 0
    /\ fam = FamIdle
    /\ call = NoCall
    /\ mu = MuIdle
    /\ fan = FanIdle
    /\ met = MetIdle

SpecSweep == InitSweep /\ [][NextTTL]_vars

---------------------------------------------------------------------------
(* The adapter on every TaskRun the API server can hold: with or without a *)
(* start time, a completion time and a Succeeded condition, the condition  *)
(* of any status with or without a last-transition time, owned by a        *)
(* PipelineRun or not.  The reconciler and one sweep work on that Run      *)
(* under a TTL of 0 .. MaxTTL seconds.                                     *)

TaskRunStatuses ==
    [startTime : {Nil, Some(0)},
     completionTime : {Nil, Some(0)},
     condition : {Nil} \cup
         {Some(Condition(st,
                         IF st = ConditionTrue THEN TaskRunReasonSuccessful
                         ELSE IF st = ConditionFalse THEN TaskRunReasonFailed
                         ELSE TaskRunReasonRunning,
                         at)) :
              st \in {ConditionUnknown, ConditionTrue, ConditionFalse},
              at \in {Nil, Some(0), Some(1)}}]

InitAdapter ==
    /\ now = 0
    /\ \E status \in TaskRunStatuses, owned \in BOOLEAN :
          runs = [r \in {1} |->
                     [NewTaskRun(TheTask, owned) EXCEPT
                         !.startTime = status.startTime,
                         !.completionTime = status.completionTime,
                         !.condition = status.condition]]
    /\ \E ttl \in 0..MaxTTL :
          store = LoadGlobalConfig(PrunerConfigStore,
                      ConfigMapOf("doc", RootDocument(Some(ttl), Nil, Nil))).ps
    /\ obs = [settled |-> FALSE, error |-> FALSE]
    /\ pass = [w \in Workers |-> IdlePass]
    /\ sweep = [SweepIdle EXCEPT !.pc = "list", !.loads = MaxLoads]
    /\ calls = {}
    /\ gc = GcIdle
    /\ gcEvents = 0
    /\ fam = FamIdle
    /\ call = NoCall
    /\ mu = MuIdle
    /\ fan = FanIdle
    /\ met = MetIdle

SpecAdapter == InitAdapter /\ [][NextTTL]_vars

---------------------------------------------------------------------------
(* A policy change that lowers the TTL: the controller starts under a root *)
(* TTL of MaxTTL seconds with one stand-alone TaskRun; the config map then *)
(* changes to a lower TTL and the sweep reloads the policy and replays     *)
(* History then TTL.  The API server answers every call.                   *)

LoweredConfigMaps ==
    {ConfigMapOf("doc", RootDocument(Some(ttl), Nil, Nil)) : ttl \in 0..(MaxTTL - 1)}

InitDowngrade ==
    /\ now = 0
    /\ runs = [r \in {1} |-> NewTaskRun(TheTask, FALSE)]
    /\ store = LoadGlobalConfig(PrunerConfigStore,
                    ConfigMapOf("doc", RootDocument(Some(MaxTTL), Nil, Nil))).ps
    /\ obs = [settled |-> FALSE, error |-> FALSE]
    /\ pass = [w \in Workers |-> IdlePass]
    /\ sweep = SweepIdle
    /\ calls = {}
    /\ gc = GcIdle
    /\ gcEvents = 0
    /\ fam = FamIdle
    /\ call = NoCall
    /\ mu = MuIdle
    /\ fan = FanIdle
    /\ met = MetIdle

NextDowngrade ==
    \/ Tick
    \/ \E r \in DOMAIN runs, status \in {ConditionTrue, ConditionFalse} : Complete(r, status)
    \/ \E r \in DOMAIN runs : ReconcileKind(r)
    \/ HistoryProcessEvent
    \/ \E w \in Workers : HistoryStamp(w)
    \/ \E w \in Workers : TTLProcessEvent(w)
    \/ \E w \in Workers : TTLPatch(w)
    \/ \E w \in Workers : TTLDelete(w)
    \/ \E configMap \in LoweredConfigMaps : SweepLoad(configMap)
    \/ SweepList
    \/ SweepNext

SpecDowngrade == InitDowngrade /\ [][NextDowngrade]_vars

---------------------------------------------------------------------------
(* One execution of runGarbageCollector: reload the policy, select the     *)
(* namespaces, hand them to the workers over the channel; a worker runs    *)
(* cleanupPRs and then cleanupTRs on each namespace it receives.           *)

\* The namespaces of the cluster as the API server lists them; a name is
\* split where the filter looks at it: its first word, and the rest.
ClusterNamespaces ==
    << <<"kube", "-system">>, <<"team", "-a">>, <<"tekton", "-pipelines">>, <<"team", "-b">> >>

\* getFilteredNamespaces: the names that start with none of kube, openshift
\* and tekton, in the order listed.
getFilteredNamespaces(nsList) ==
    SelectSeq(nsList, LAMBDA name : name[1] \notin {"kube", "openshift", "tekton"})

FanLoadIgnoresError(getOk, configMap) ==
    /\ fan.pc = "start"
    /\ fan' = [fan EXCEPT !.pc = "filter",
                          !.configMap = IF getOk THEN Some(configMap) ELSE Nil]
    /\ store' = IF getOk THEN LoadGlobalConfig(store, configMap).ps ELSE store
    /\ UNCHANGED <<now, runs, pass, sweep, calls, obs, gc, gcEvents, fam, call, mu, met>>

\* Get the config map and load the policy from it; either failure reports a
\* configuration error and returns.
FanLoad(getOk, configMap) ==
    /\ fan.pc = "start"
    /\ LET res == LoadGlobalConfig(store, configMap)
       IN  IF ~getOk
           THEN /\ fan' = [fan EXCEPT !.pc = "done", !.reported = @ \cup {"configmap"}]
                /\ store' = store
           ELSE IF res.err
           THEN /\ fan' = [fan EXCEPT !.pc = "done", !.configMap = Some(configMap),
                                      !.reported = @ \cup {"global_config"}]
                /\ store' = store
           ELSE /\ fan' = [fan EXCEPT !.pc = "filter", !.configMap = Some(configMap)]
                /\ store' = res.ps
    /\ UNCHANGED <<now, runs, pass, sweep, calls, obs, gc, gcEvents, fam, call, mu, met>>

\* List and filter the namespaces (a failure reports and returns), read the
\* worker count and start the workers.  The cluster holds the first listed
\* of ClusterNamespaces.
FanFilter(listOk, listed, workerCount) ==
    /\ fan.pc = "filter"
    /\ fan' = IF ~listOk
              THEN [fan EXCEPT !.pc = "done", !.reported = @ \cup {"namespace_filter"}]
              ELSE [fan EXCEPT !.pc = "send",
                               !.namespaces = getFilteredNamespaces(
                                                  SubSeq(ClusterNamespaces, 1, listed)),
                               !.workers = [w \in 1..workerCount |->
                                               [pc |-> "recv", ns |-> <<>>]]]
    /\ UNCHANGED <<now, runs, store, pass, sweep, calls, obs, gc, gcEvents, fam, call, mu, met>>

\* nsChan <- ns meets a worker's receive: the channel has no buffer.
FanSend(w) ==
    /\ fan.pc = "send"
    /\ fan.sent < Len(fan.namespaces)
    /\ fan.workers[w].pc = "recv"
    /\ fan' = [fan EXCEPT !.sent = @ + 1,
                          !.workers[w] = [pc |-> "prs", ns |-> fan.namespaces[fan.sent + 1]]]
    /\ UNCHANGED <<now, runs, store, pass, sweep, calls, obs, gc, gcEvents, fam, call, mu, met>>

FanCloseBeforeLastSend ==
    /\ fan.pc = "send"
    /\ fan.sent >= Len(fan.namespaces) - 1
    /\ fan' = [fan EXCEPT !.pc = "wait", !.closed = TRUE]
    /\ UNCHANGED <<now, runs, store, pass, sweep, calls, obs, gc, gcEvents, fam, call, mu, met>>

\* close(nsChan), after the last send.
FanClose ==
    /\ fan.pc = "send"
    /\ fan.sent = Len(fan.namespaces)
    /\ fan' = [fan EXCEPT !.pc = "wait", !.closed = TRUE]
    /\ UNCHANGED <<now, runs, store, pass, sweep, calls, obs, gc, gcEvents, fam, call, mu, met>>

WorkerCleanupPRsReturnsOnError(w, err) ==
    /\ fan.workers[w].pc = "prs"
    /\ fan' = [fan EXCEPT
                 !.log = Append(@, [ns |-> fan.workers[w].ns, kind |-> "pipelinerun",
                                    err |-> err]),
                 !.workers[w].pc = IF err THEN "recv" ELSE "trs"]
    /\ UNCHANGED <<now, runs, store, pass, sweep, calls, obs, gc, gcEvents, fam, call, mu, met>>

\* The worker calls cleanupPRs on its namespace; an error is logged and
\* reported, and the worker goes on to the TaskRuns.
WorkerCleanupPRs(w, err) ==
    /\ fan.workers[w].pc = "prs"
    /\ fan' = [fan EXCEPT
                 !.log = Append(@, [ns |-> fan.workers[w].ns, kind |-> "pipelinerun",
                                    err |-> err]),
                 !.workers[w].pc = "trs"]
    /\ UNCHANGED <<now, runs, store, pass, sweep, calls, obs, gc, gcEvents, fam, call, mu, met>>

\* The worker calls cleanupTRs on its namespace; an error is logged and
\* reported, and the worker receives again.
WorkerCleanupTRs(w, err) ==
    /\ fan.workers[w].pc = "trs"
    /\ fan' = [fan EXCEPT
                 !.log = Append(@, [ns |-> fan.workers[w].ns, kind |-> "taskrun",
                                    err |-> err]),
                 !.workers[w].pc = "recv"]
    /\ UNCHANGED <<now, runs, store, pass, sweep, calls, obs, gc, gcEvents, fam, call, mu, met>>

\* The worker's range over nsChan ends once the channel is closed.
WorkerExit(w) ==
    /\ fan.workers[w].pc = "recv"
    /\ fan.closed
    /\ fan' = [fan EXCEPT !.workers[w].pc = "exit"]
    /\ UNCHANGED <<now, runs, store, pass, sweep, calls, obs, gc, gcEvents, fam, call, mu, met>>

\* wg.Wait() returns when every worker has exited.
FanWait ==
    /\ fan.pc = "wait"
    /\ \A w \in DOMAIN fan.workers : fan.workers[w].pc = "exit"
    /\ fan' = [fan EXCEPT !.pc = "done"]
    /\ UNCHANGED <<now, runs, store, pass, sweep, calls, obs, gc, gcEvents, fam, call, mu, met>>

InitFanout ==
    /\ now = 0
    /\ runs = InitRuns
    /\ store = PrunerConfigStore
    /\ obs = [settled |-> FALSE, error |-> FALSE]
    /\ pass = [w \in Workers |-> IdlePass]
    /\ sweep = SweepIdle
    /\ calls = {}
    /\ gc = GcIdle
    /\ gcEvents = 0
    /\ fam = FamIdle
    /\ call = NoCall
    /\ mu = MuIdle
    /\ fan = FanIdle
    /\ met = MetIdle

NextFanout ==
    \/ \E getOk \in BOOLEAN, configMap \in ConfigMaps : FanLoad(getOk, configMap)
    \/ \E listOk \in BOOLEAN, listed \in 0..Len(ClusterNamespaces), workerCount \in 1..MaxWorkers :
          FanFilter(listOk, listed, workerCount)
    \/ \E w \in DOMAIN fan.workers : FanSend(w)
    \/ FanClose
    \/ \E w \in DOMAIN fan.workers, err \in BOOLEAN : WorkerCleanupPRs(w, err)
    \/ \E w \in DOMAIN fan.workers, err \in BOOLEAN : WorkerCleanupTRs(w, err)
    \/ \E w \in DOMAIN fan.workers : WorkerExit(w)
    \/ FanWait

SpecFanout == InitFanout /\ [][NextFanout]_vars

\* The fair runs: the main goroutine and every worker goroutine that can
\* take its next step takes it in the end, and a send on the channel meets
\* a worker that is waiting to receive.
SpecFanoutLive ==
    /\ SpecFanout
    /\ WF_vars(\E w \in DOMAIN fan.workers : FanSend(w))
    /\ WF_vars(FanClose)
    /\ WF_vars(FanWait)
    /\ \A w \in 1..MaxWorkers :
          /\ WF_vars(w \in DOMAIN fan.workers /\ \E err \in BOOLEAN : WorkerCleanupPRs(w, err))
          /\ WF_vars(w \in DOMAIN fan.workers /\ \E err \in BOOLEAN : WorkerCleanupTRs(w, err))
          /\ WF_vars(w \in DOMAIN fan.workers /\ WorkerExit(w))

---------------------------------------------------------------------------
(* The policy store on its own: a store holding any global document and    *)
(* any per-namespace policy for the namespace and its task, and the calls  *)
(* on it: the lookups of both kinds, LoadGlobalConfig, DeleteNamespacedSpec.*)
(* The layers are numbered 2 .. 6 for (b) .. (f) of the design document;   *)
(* a layer that defines its fields gives each a value that names the layer *)
(* and the field.                                                          *)

OtherNamespace == "ns2"
OtherTask == "t2"

FieldTypes ==
    {PrunerFieldTypeTTLSecondsAfterFinished, PrunerFieldTypeSuccessfulHistoryLimit,
     PrunerFieldTypeFailedHistoryLimit}

ResourceTypes == {PrunerResourceTypePipelineRun, PrunerResourceTypeTaskRun}

\* The value a layer gives a field, when it defines its fields.
LayerValue(layer, defined, k) == IF defined THEN Some(10 * layer + k) ELSE Nil

\* The level a place gives, when it sets one.
LevelAt(level, defined) == IF defined THEN Some(level) ELSE Nil

\* A namespace's entry: its root, which may set fields and rootLevel; a
\* pipeline of the task's name; another task; and an entry for the task or
\* none, which may set fields and resourceLevel.
NamespaceEntries(layer, resourceLevel, rootLevel) ==
    {PrunerResourceSpec(LevelAt(rootLevel, l), LayerValue(layer + 1, d, 0),
                        LayerValue(layer + 1, d, 1), LayerValue(layer + 1, d, 2),
                        <<ResourceSpec(TheTask, Nil, LayerValue(layer, TRUE, 3),
                                       LayerValue(layer, TRUE, 4), LayerValue(layer, TRUE, 5))>>,
                        <<ResourceSpec(OtherTask, Some(EnforcedConfigLevelGlobal),
                                       LayerValue(layer, TRUE, 6), LayerValue(layer, TRUE, 7),
                                       LayerValue(layer, TRUE, 8))>> \o trs) :
        l \in BOOLEAN, d \in BOOLEAN,
        trs \in {<<>>} \cup
                {<<ResourceSpec(TheTask, LevelAt(resourceLevel, rl), LayerValue(layer, rd, 0),
                                LayerValue(layer, rd, 1), LayerValue(layer, rd, 2))>> :
                    rl \in BOOLEAN, rd \in BOOLEAN}}

\* A map with no entry or one entry for the namespace.
NamespaceMaps(layer, resourceLevel, rootLevel) ==
    {NoNamespaces} \cup
    {[n \in {TheNamespace} |-> e] : e \in NamespaceEntries(layer, resourceLevel, rootLevel)}

\* The global documents: the root may set the level global, the namespace's
\* root the level namespace, the task's entry the level resource.
GlobalDocuments ==
    {PrunerConfig(LevelAt(EnforcedConfigLevelGlobal, l), LayerValue(6, d, 0),
                  LayerValue(6, d, 1), LayerValue(6, d, 2), nss) :
        l \in BOOLEAN, d \in BOOLEAN,
        nss \in NamespaceMaps(4, EnforcedConfigLevelResource, EnforcedConfigLevelNamespace)}

\* The per-namespace policies: the namespace's root may set the level
\* namespace, the task's entry the level global; another namespace may have
\* a policy of its own.
OtherPolicy ==
    PrunerResourceSpec(Some(EnforcedConfigLevelGlobal), LayerValue(8, TRUE, 0),
                       LayerValue(8, TRUE, 1), LayerValue(8, TRUE, 2), <<>>, <<>>)

NamespacedPolicies ==
    LET maps == NamespaceMaps(2, EnforcedConfigLevelGlobal, EnforcedConfigLevelNamespace)
    IN  maps \cup
        {[n \in (DOMAIN m) \cup {OtherNamespace} |->
             IF n = OtherNamespace THEN OtherPolicy ELSE m[n]] : m \in maps}

\* The pruner annotations of a Run: none, or an override of every field.
NoAnnotations == [f \in FieldTypes |-> Nil]
AnnotationSets ==
    {NoAnnotations,
     [f \in FieldTypes |->
        CASE f = PrunerFieldTypeTTLSecondsAfterFinished -> LayerValue(1, TRUE, 0)
          [] f = PrunerFieldTypeSuccessfulHistoryLimit -> LayerValue(1, TRUE, 1)
          [] OTHER -> LayerValue(1, TRUE, 2)]}

\* The public lookup of a field for a kind of Run.
GetField(ps, namespace, name, resourceType, fieldType) ==
    IF resourceType = PrunerResourceTypePipelineRun
    THEN CASE fieldType = PrunerFieldTypeTTLSecondsAfterFinished ->
                  GetPipelineTTLSecondsAfterFinished(ps, namespace, name)
           [] fieldType = PrunerFieldTypeSuccessfulHistoryLimit ->
                  GetPipelineSuccessHistoryLimitCount(ps, namespace, name)
           [] OTHER -> GetPipelineFailedHistoryLimitCount(ps, namespace, name)
    ELSE CASE fieldType = PrunerFieldTypeTTLSecondsAfterFinished ->
                  GetTaskTTLSecondsAfterFinished(ps, namespace, name)
           [] fieldType = PrunerFieldTypeSuccessfulHistoryLimit ->
                  GetTaskSuccessHistoryLimitCount(ps, namespace, name)
           [] OTHER -> GetTaskFailedHistoryLimitCount(ps, namespace, name)

\* The public lookup of the enforced config level for a kind of Run.
GetLevel(ps, namespace, name, resourceType) ==
    IF resourceType = PrunerResourceTypePipelineRun
    THEN GetPipelineEnforcedConfigLevel(ps, namespace, name)
    ELSE GetTaskEnforcedConfigLevel(ps, namespace, name)

\* The effective value of a field for a Run (design document, 3 and 4.1):
\* the Run's annotation wins where the level lets the resource override,
\* else the store's lookup.
EffectiveValue(ps, namespace, name, resourceType, fieldType, annotations) ==
    IF GetLevel(ps, namespace, name, resourceType) = EnforcedConfigLevelResource
       /\ ~IsNil(annotations[fieldType])
    THEN annotations[fieldType]
    ELSE GetField(ps, namespace, name, resourceType, fieldType)

StoreLookupBeforeLastWrite(namespace, name, resourceType, annotations) ==
    LET ps == IF call.op \in {"load", "delete"} THEN call.before ELSE store
    IN  /\ call' = [op |-> "lookup", namespace |-> namespace, name |-> name,
                    resourceType |-> resourceType, annotations |-> annotations,
                    level |-> GetLevel(ps, namespace, name, resourceType),
                    value |-> [f \in FieldTypes |->
                                  GetField(ps, namespace, name, resourceType, f)],
                    effective |-> [f \in FieldTypes |->
                                  EffectiveValue(ps, namespace, name, resourceType, f,
                                                 annotations)]]
        /\ UNCHANGED <<now, runs, store, pass, sweep, calls, obs, gc, gcEvents, fam, mu, fan, met>>

\* A Run of the kind, in the namespace, of the name, with the annotations,
\* is resolved: the level and every field.
StoreLookup(namespace, name, resourceType, annotations) ==
    /\ call' = [op |-> "lookup", namespace |-> namespace, name |-> name,
                resourceType |-> resourceType, annotations |-> annotations,
                level |-> GetLevel(store, namespace, name, resourceType),
                value |-> [f \in FieldTypes |->
                              GetField(store, namespace, name, resourceType, f)],
                effective |-> [f \in FieldTypes |->
                              EffectiveValue(store, namespace, name, resourceType, f,
                                             annotations)]]
    /\ UNCHANGED <<now, runs, store, pass, sweep, calls, obs, gc, gcEvents, fam, mu, fan, met>>

\* LoadGlobalConfig is called with a config map.
StoreLoad(configMap) ==
    /\ LET res == LoadGlobalConfig(store, configMap)
       IN  /\ store' = res.ps
           /\ call' = [op |-> "load", configMap |-> configMap, err |-> res.err,
                       before |-> store]
    /\ UNCHANGED <<now, runs, pass, sweep, calls, obs, gc, gcEvents, fam, mu, fan, met>>

\* DeleteNamespacedSpec is called for a namespace.
StoreDelete(namespace) ==
    /\ store' = DeleteNamespacedSpec(store, namespace)
    /\ call' = [op |-> "delete", namespace |-> namespace, before |-> store]
    /\ UNCHANGED <<now, runs, pass, sweep, calls, obs, gc, gcEvents, fam, mu, fan, met>>

\* The config maps the store is loaded from: no policy text, text that is
\* not YAML, and a document that only sets the global root.
StoreConfigMaps ==
    {ConfigMapOf("empty", EmptyConfig), ConfigMapOf("malformed", EmptyConfig),
     ConfigMapOf("doc", PrunerConfig(Some(EnforcedConfigLevelNamespace),
                     LayerValue(7, TRUE, 0), LayerValue(7, TRUE, 1), LayerValue(7, TRUE, 2),
                     NoNamespaces))}

InitStore ==
    /\ now = 0
    /\ runs = InitRuns
    /\ store \in [globalConfig : GlobalDocuments, namespacedConfig : NamespacedPolicies]
    /\ obs = [settled |-> FALSE, error |-> FALSE]
    /\ pass = [w \in Workers |-> IdlePass]
    /\ sweep = SweepIdle
    /\ calls = {}
    /\ gc = GcIdle
    /\ gcEvents = 0
    /\ fam = FamIdle
    /\ call = NoCall
    /\ mu = MuIdle
    /\ fan = FanIdle
    /\ met = MetIdle

NextStore ==
    \/ \E namespace \in {TheNamespace, OtherNamespace}, resourceType \in ResourceTypes,
          annotations \in AnnotationSets :
          StoreLookup(namespace, TheTask, resourceType, annotations)
    \/ \E configMap \in StoreConfigMaps : StoreLoad(configMap)
    \/ \E namespace \in {TheNamespace, OtherNamespace} : StoreDelete(namespace)

SpecStore == InitStore /\ [][NextStore]_vars

---------------------------------------------------------------------------
(* The store under concurrent calls: goroutines (reconciler workers, the   *)
(* sweep) each make one call on the store.  LoadGlobalConfig,              *)
(* DeleteNamespacedSpec and the six field lookups take ps.mutex for the    *)
(* whole call; GetPipelineEnforcedConfigLevel and                          *)
(* GetTaskEnforcedConfigLevel take no lock.  A step is one access to the   *)
(* store or to the mutex.                                                  *)

Callers == 1..MaxGoroutines

\* What a lookup asks for: a field, or the enforced config level.
LevelLookup == "enforcedConfigLevel"

\* The methods of the store, by name and argument.
StoreMethods ==
    {[method |-> "LoadGlobalConfig", arg |-> cm] : cm \in {"doc", "malformed"}} \cup
    {[method |-> "DeleteNamespacedSpec", arg |-> TheNamespace]} \cup
    {[method |-> "Get", arg |-> <<resourceType, what>>] :
        resourceType \in ResourceTypes, what \in FieldTypes \cup {LevelLookup}}

\* Whether the method locks ps.mutex on entry (and unlocks it by defer).
TakesLock(m) == ~(m.method = "Get" /\ m.arg[2] = LevelLookup)

\* The document the config map holds: no level and no field at the root;
\* the namespace's entry sets the level namespace and the fields.
LockLoadedDocument ==
    PrunerConfig(Nil, Nil, Nil, Nil,
        [n \in {TheNamespace} |->
            PrunerResourceSpec(Some(EnforcedConfigLevelNamespace), LayerValue(5, TRUE, 0),
                               LayerValue(5, TRUE, 1), LayerValue(5, TRUE, 2), <<>>, <<>>)])

\* The store at start: the global document's root sets the level global and
\* the fields and no namespace has an entry in it; the namespace has a
\* per-namespace policy.
LockStartStore ==
    [globalConfig |->
        PrunerConfig(Some(EnforcedConfigLevelGlobal), LayerValue(6, TRUE, 0),
                     LayerValue(6, TRUE, 1), LayerValue(6, TRUE, 2), NoNamespaces),
     namespacedConfig |-> [n \in {TheNamespace} |->
            PrunerResourceSpec(Nil, LayerValue(3, TRUE, 0), LayerValue(3, TRUE, 1),
                               LayerValue(3, TRUE, 2), <<>>, <<>>)]]

IdleCaller == [m |-> [method |-> "none", arg |-> ""], pc |-> "idle", seen |-> Nil]

\* What a lookup reads off the store as it is at the read.
ReadStore(ps, m) ==
    IF m.arg[2] = LevelLookup
    THEN Some(GetLevel(ps, TheNamespace, TheTask, m.arg[1]))
    ELSE GetField(ps, TheNamespace, TheTask, m.arg[1], m.arg[2])

\* A goroutine enters a method of the store.
StoreCall(g, m) ==
    /\ mu.threads[g].pc = "idle"
    /\ mu' = [mu EXCEPT !.threads[g] =
                  [m |-> m, pc |-> IF TakesLock(m) THEN "lock" ELSE "read", seen |-> Nil]]
    /\ UNCHANGED <<now, runs, store, pass, sweep, calls, obs, gc, gcEvents, fam, call, fan, met>>

\* ps.mutex.Lock() returns once the mutex is free.
MutexLock(g) ==
    /\ mu.threads[g].pc = "lock"
    /\ mu.holder = 0
    /\ mu' = [mu EXCEPT !.holder = g,
                        !.threads[g].pc =
                            CASE mu.threads[g].m.method = "LoadGlobalConfig" -> "unmarshal"
                              [] mu.threads[g].m.method = "DeleteNamespacedSpec" -> "delete"
                              [] OTHER -> "read"]
    /\ UNCHANGED <<now, runs, store, pass, sweep, calls, obs, gc, gcEvents, fam, call, fan, met>>

\* yaml.Unmarshal: an error returns (the deferred unlock follows).
LoadUnmarshal(g) ==
    /\ mu.threads[g].pc = "unmarshal"
    /\ mu' = [mu EXCEPT !.threads[g].pc =
                  IF mu.threads[g].m.arg = "malformed" THEN "unlock" ELSE "assign"]
    /\ UNCHANGED <<now, runs, store, pass, sweep, calls, obs, gc, gcEvents, fam, call, fan, met>>

\* ps.globalConfig = *globalConfig copies a struct of several words: first
\* the level and the fields of the root ...
LoadAssignRoot(g) ==
    /\ mu.threads[g].pc = "assign"
    /\ store' = [store EXCEPT !.globalConfig =
                     [LockLoadedDocument EXCEPT !.namespaces = store.globalConfig.namespaces]]
    /\ mu' = [mu EXCEPT !.threads[g].pc = "assignNamespaces"]
    /\ UNCHANGED <<now, runs, pass, sweep, calls, obs, gc, gcEvents, fam, call, fan, met>>

\* ... then the Namespaces map (an empty map for a nil one).
LoadAssignNamespaces(g) ==
    /\ mu.threads[g].pc = "assignNamespaces"
    /\ store' = LoadGlobalConfig(store, ConfigMapOf("doc", LockLoadedDocument)).ps
    /\ mu' = [mu EXCEPT !.threads[g].pc = "unlock"]
    /\ UNCHANGED <<now, runs, pass, sweep, calls, obs, gc, gcEvents, fam, call, fan, met>>

\* delete(ps.namespacedConfig, namespace)
LockedDelete(g) ==
    /\ mu.threads[g].pc = "delete"
    /\ store' = DeleteNamespacedSpec(store, mu.threads[g].m.arg)
    /\ mu' = [mu EXCEPT !.threads[g].pc = "unlock"]
    /\ UNCHANGED <<now, runs, pass, sweep, calls, obs, gc, gcEvents, fam, call, fan, met>>

\* The lookup reads the documents and returns (the deferred unlock follows
\* where the method locked).
LookupRead(g) ==
    /\ mu.threads[g].pc = "read"
    /\ mu' = [mu EXCEPT !.threads[g].seen = Some(ReadStore(store, mu.threads[g].m)),
                        !.threads[g].pc = IF TakesLock(mu.threads[g].m) THEN "unlock"
                                          ELSE "done"]
    /\ UNCHANGED <<now, runs, store, pass, sweep, calls, obs, gc, gcEvents, fam, call, fan, met>>

\* defer ps.mutex.Unlock()
MutexUnlock(g) ==
    /\ mu.threads[g].pc = "unlock"
    /\ mu' = [mu EXCEPT !.holder = 0, !.threads[g].pc = "done"]
    /\ UNCHANGED <<now, runs, store, pass, sweep, calls, obs, gc, gcEvents, fam, call, fan, met>>

InitLock ==
    /\ now = 0
    /\ runs = InitRuns
    /\ store = LockStartStore
    /\ obs = [settled |-> FALSE, error |-> FALSE]
    /\ pass = [w \in Workers |-> IdlePass]
    /\ sweep = SweepIdle
    /\ calls = {}
    /\ gc = GcIdle
    /\ gcEvents = 0
    /\ fam = FamIdle
    /\ call = NoCall
    /\ mu = [holder |-> 0, threads |-> [g \in Callers |-> IdleCaller]]
    /\ fan = FanIdle
    /\ met = MetIdle

NextLock ==
    \/ \E g \in Callers, m \in StoreMethods : StoreCall(g, m)
    \/ \E g \in Callers : MutexLock(g)
    \/ \E g \in Callers : LoadUnmarshal(g)
    \/ \E g \in Callers : LoadAssignRoot(g)
    \/ \E g \in Callers : LoadAssignNamespaces(g)
    \/ \E g \in Callers : LockedDelete(g)
    \/ \E g \in Callers : LookupRead(g)
    \/ \E g \in Callers : MutexUnlock(g)

SpecLock == InitLock /\ [][NextLock]_vars

---------------------------------------------------------------------------
(* Package metrics, the Reporter (OpenTelemetry): the up-down counters     *)
(* with set semantics.  ReportActiveResourcesCount, and in the same way    *)
(* ReportCurrentResourcesQueued and ReportActiveWorkers, records the value *)
(* under the Reporter's mutex and adds the difference to the counter after *)
(* it has released the mutex.                                              *)

OtherFrame ==
    UNCHANGED <<now, runs, store, pass, sweep, calls, obs, gc, gcEvents, fam, call, mu, fan>>

ReportLockNoMutex(t, key, count) ==
    /\ met.threads[t].pc = "idle"
    /\ met' = [met EXCEPT !.mutex = t,
                          !.threads[t] = [pc |-> "read", key |-> key, count |-> count,
                                          delta |-> 0]]
    /\ OtherFrame

\* A call with a key and a value: r.mu.Lock().
ReportLock(t, key, count) ==
    /\ met.threads[t].pc = "idle"
    /\ met.mutex = 0
    /\ met' = [met EXCEPT !.mutex = t,
                          !.threads[t] = [pc |-> "read", key |-> key, count |-> count,
                                          delta |-> 0]]
    /\ OtherFrame

\* prev := r.lastActiveResourcesCountByKey[key]; a key that is not in the
\* map reads as 0.  The thread keeps prev in delta until it writes.
ReportRead(t) ==
    /\ met.threads[t].pc = "read"
    /\ met' = [met EXCEPT !.threads[t].pc = "write",
                          !.threads[t].delta = met.last[met.threads[t].key]]
    /\ OtherFrame

\* r.lastActiveResourcesCountByKey[key] = count; delta := count - prev;
\* r.mu.Unlock().  A delta of 0 adds nothing and the call returns.
ReportWrite(t) ==
    /\ met.threads[t].pc = "write"
    /\ LET th == met.threads[t]
           delta == th.count - th.delta
       IN  met' = [met EXCEPT !.last[th.key] = th.count,
                              !.mutex = 0,
                              !.threads[t].delta = delta,
                              !.threads[t].pc = IF delta # 0 THEN "add" ELSE "idle"]
    /\ OtherFrame

\* r.activeResourcesCount.Add(ctx, delta, attributes of the key); return.
ReportAdd(t) ==
    /\ met.threads[t].pc = "add"
    /\ LET th == met.threads[t]
       IN  met' = [met EXCEPT !.counter[th.key] = @ + th.delta,
                              !.threads[t].pc = "idle",
                              !.threads[t].delta = 0]
    /\ OtherFrame

InitMetrics ==
    /\ now = 0
    /\ runs = InitRuns
    /\ store = PrunerConfigStore
    /\ obs = [settled |-> FALSE, error |-> FALSE]
    /\ pass = [w \in Workers |-> IdlePass]
    /\ sweep = SweepIdle
    /\ calls = {}
    /\ gc = GcIdle
    /\ gcEvents = 0
    /\ fam = FamIdle
    /\ call = NoCall
    /\ mu = MuIdle
    /\ fan = FanIdle
    /\ met = MetIdle

NextCounters ==
    \/ \E t \in Callers, key \in MetricKeys, count \in 0..MaxCount : ReportLock(t, key, count)
    \/ \E t \in Callers : ReportRead(t)
    \/ \E t \in Callers : ReportWrite(t)
    \/ \E t \in Callers : ReportAdd(t)

SpecCounters == InitMetrics /\ [][NextCounters]_vars

---------------------------------------------------------------------------
(* Package metrics: Setup and its sync.Once, the HybridReporter and its    *)
(* lock, and the ErrorReporter's wrapper                                   *)

\* Setup: the first call runs the initialization inside initOnce.Do and
\* returns its error; initOnce.Do makes every other call wait for that and
\* then skip the function, so such a call returns its own setupErr, which
\* nothing has set.  Each return is recorded with what GetReporter gives
\* at that time.
Setup(exporterOk, reporterOk) ==
    /\ LET first == ~met.once
           ok == exporterOk /\ reporterOk
           reporter == IF first /\ ok THEN TRUE ELSE met.globalReporter
           setupErr == first /\ ~ok
       IN  met' = [met EXCEPT !.once = TRUE,
                              !.globalReporter = reporter,
                              !.setups = @ \cup {[first |-> first, err |-> setupErr,
                                                  reporter |-> reporter]}]
    /\ OtherFrame

\* NewHybridReporter: the struct with its config, then initialize().
NewHybridReporter(t, metricsEnabled) ==
    /\ IsNil(met.hr.config)
    /\ met.hr.pc[t] = "idle"
    /\ met' = [met EXCEPT !.hr.config = Some([metrics |-> metricsEnabled]),
                          !.hr.pc[t] = "initLock"]
    /\ OtherFrame

\* initialize: hr.mu.Lock().  The lock is not re-entrant: it is taken only
\* when no goroutine holds it, the caller included.
initializeLock(t) ==
    /\ met.hr.pc[t] = "initLock"
    /\ met.hr.mu = 0
    /\ met' = [met EXCEPT !.hr.mu = t, !.hr.pc[t] = "init"]
    /\ OtherFrame

\* initialize under the lock: return at once if already initialized; else
\* take the global reporter if metrics are enabled (an error if there is
\* none: NewHybridReporter then returns no reporter), make the error
\* reporter, set initialized; the deferred Unlock.
initialize(t) ==
    /\ met.hr.pc[t] = "init"
    /\ LET enabled == Val(met.hr.config).metrics
       IN  IF met.hr.initialized
           THEN met' = [met EXCEPT !.hr.mu = 0, !.hr.pc[t] = "idle"]
           ELSE IF enabled /\ ~met.globalReporter
           THEN met' = [met EXCEPT !.hr.mu = 0, !.hr.pc[t] = "idle", !.hr.config = Nil]
           ELSE met' = [met EXCEPT !.hr.mu = 0, !.hr.pc[t] = "idle",
                                   !.hr.metricsReporter = enabled,
                                   !.hr.errorReporter = TRUE,
                                   !.hr.initialized = TRUE]
    /\ OtherFrame

\* UpdateConfig on a reporter that NewHybridReporter returned: hr.mu.Lock(),
\* hr.config = config, then the call of initialize() with the lock held.
UpdateConfig(t, metricsEnabled) ==
    /\ met.hr.initialized
    /\ met.hr.pc[t] = "idle"
    /\ met.hr.mu = 0
    /\ met' = [met EXCEPT !.hr.mu = t,
                          !.hr.config = Some([metrics |-> metricsEnabled]),
                          !.hr.pc[t] = "initLock"]
    /\ OtherFrame

\* HybridReporter.WithErrorReporting on a reporter that NewHybridReporter
\* returned, so that its error reporter is set: ErrorReporter's wrapper
\* defers RecoverPanic and calls fn.  fn returns nil, returns an error, or
\* panics.  After a panic RecoverPanic recovers and reports, and the
\* wrapper returns the zero value of its unnamed result, nil.
WithErrorReporting(fn) ==
    /\ met.hr.initialized
    /\ met.hr.errorReporter
    /\ LET reported == IF ~met.hr.metricsReporter \/ fn = "nil" THEN "none"
                       ELSE IF fn = "panic" THEN "panic" ELSE "category"
       IN  met' = [met EXCEPT !.wrapped = @ \cup {[fn |-> fn, err |-> fn = "error",
                                                    reported |-> reported]}]
    /\ OtherFrame

NextObservability ==
    \/ \E exporterOk \in BOOLEAN, reporterOk \in BOOLEAN : Setup(exporterOk, reporterOk)
    \/ \E t \in Callers, metricsEnabled \in BOOLEAN : NewHybridReporter(t, metricsEnabled)
    \/ \E t \in Callers : initializeLock(t)
    \/ \E t \in Callers : initialize(t)
    \/ \E t \in Callers, metricsEnabled \in BOOLEAN : UpdateConfig(t, metricsEnabled)
    \/ \E fn \in {"nil", "error", "panic"} : WithErrorReporting(fn)

SpecObservability == InitMetrics /\ [][NextObservability]_vars

---------------------------------------------------------------------------
(* Properties                                                              *)

\* The effective limit of the task's family for a field, resolved from the
\* policy store.
PolicyLimit(fieldType) ==
    getResourceFieldData(store.namespacedConfig, store.globalConfig, TheNamespace, TheTask,
        PrunerResourceTypeTaskRun, fieldType,
        getEnforcedConfigLevel(store, TheNamespace, TheTask, PrunerResourceTypeTaskRun))

LimitField(status) ==
    IF status = ConditionTrue THEN PrunerFieldTypeSuccessfulHistoryLimit
    ELSE PrunerFieldTypeFailedHistoryLimit

\* The class has a defined limit L >= 0.
Limited(status) ==
    ~IsNil(PolicyLimit(LimitField(status))) /\ Val(PolicyLimit(LimitField(status))) >= 0

\* A Run that finished with the given status of its Succeeded condition.
FinishedWith(tr, status) ==
    /\ ~IsNil(tr.completionTime)
    /\ ~IsNil(tr.condition)
    /\ Val(tr.condition).status = status

\* The stand-alone completed Runs of a class that remain on the server.
Remaining(status) ==
    {r \in DOMAIN runs : runs[r].exists /\ ~runs[r].owned /\ FinishedWith(runs[r], status)}

\* No reconcile and no sweep is in flight.
Quiescent == sweep.pc = "idle" /\ \A w \in Workers : pass[w].pc = "idle"

\* C1: the TTL engine deletes a Run only when the Run carries a
\* ttl-schedule-at and the clock has reached it; a Run whose ttl-schedule-at
\* is absent or in the future is never deleted for TTL reasons.
NoPreExpiryDelete ==
    [][\A c \in calls' \ calls :
          (c.op = "ttl" /\ ~c.notFound) =>
              /\ ~IsNil(runs[c.run].ttlScheduleAt)
              /\ now >= ParseRFC3339(Val(runs[c.run].ttlScheduleAt))]_vars

\* C2: once ttl-schedule-at is written on a Run, no later step of any pass
\* changes its value.
TtlScheduleAtWrittenOnce ==
    [][\A r \in DOMAIN runs :
          ~IsNil(runs[r].ttlScheduleAt) => runs'[r].ttlScheduleAt = runs[r].ttlScheduleAt]_vars

\* C3: when nothing is in flight and the limiter has finished an evaluation
\* of the family since the last completion and the last policy load, the
\* remaining successful Runs and the remaining failed Runs are each within
\* their limit, for every limit L >= 0.
HistoryBound ==
    (Quiescent /\ obs.settled) =>
        \A status \in {ConditionTrue, ConditionFalse} :
            Limited(status) =>
                Cardinality(Remaining(status)) <= Val(PolicyLimit(LimitField(status)))

\* The limiter ran to quiescence after it deleted an overflow.
HistoryBoundReached ==
    /\ Quiescent
    /\ obs.settled
    /\ \E c \in calls : c.op = "history" /\ ~c.notFound
    /\ \E status \in {ConditionTrue, ConditionFalse} :
          Limited(status) /\ Cardinality(Remaining(status)) = Val(PolicyLimit(LimitField(status)))

\* The completed members of a class in the family of the stand-alone call.
FamilyClass(status) == {r \in DOMAIN fam.objs : FinishedWith(fam.objs[r], status)}

FamilyDeleted == {fam.deleted[i] : i \in DOMAIN fam.deleted}

\* d is older than k: it completed earlier, or at the same second with the
\* later name.
Older(d, k) ==
    LET td == Val(fam.objs[d].completionTime)
        tk == Val(fam.objs[k].completionTime)
    IN  td < tk \/ (td = tk /\ d > k)

OverflowOfClass(status, limit) ==
    LET K == FamilyClass(status)
        D == FamilyDeleted \cap K
    IN  (~IsNil(limit) /\ Val(limit) >= 0) =>
            /\ Cardinality(D) = IF Cardinality(K) > Val(limit)
                                THEN Cardinality(K) - Val(limit) ELSE 0
            /\ \A d \in D, k \in K \ D : Older(d, k)

\* C4: one limiter call on a family with k completed Runs in a class and a
\* limit L >= 0 deletes exactly max(0, k - L) Runs of the class, each once,
\* and every deleted Run is older (completion time, ties by name) than every
\* retained Run of the class.
DeterministicOverflow ==
    fam.done =>
        /\ Len(fam.deleted) = Cardinality(FamilyDeleted)
        /\ OverflowOfClass(ConditionTrue, fam.succLimit)
        /\ OverflowOfClass(ConditionFalse, fam.failLimit)

\* A call that deleted two Runs and broke a tie by name.
OverflowWithTie ==
    /\ fam.done
    /\ Len(fam.deleted) >= 2
    /\ \E status \in {ConditionTrue, ConditionFalse} :
          \E d \in FamilyDeleted \cap FamilyClass(status) :
              \E k \in FamilyClass(status) \ FamilyDeleted :
                  fam.objs[d].completionTime = fam.objs[k].completionTime

\* C5: a limiter call puts a Run on its delete list only if the effective
\* limit of the Run's class, as the call resolves it, is defined and >= 0,
\* and every history delete is for the head of such a list: no Run of a
\* class whose limit is -1 or undefined is deleted by the limiter.
UnlimitedHistory ==
    [][/\ \A w \in Workers :
              (pass[w].pc # "histDelete" /\ pass'[w].pc = "histDelete") =>
                  \A i \in DOMAIN pass'[w].todo :
                      \E status \in {ConditionTrue, ConditionFalse} :
                          /\ FinishedWith(runs[pass'[w].todo[i]], status)
                          /\ Limited(status)
       /\ \A c \in calls' \ calls :
              c.op = "history" =>
                  \E w \in Workers : pass[w].pc = "histDelete" /\ Head(pass[w].todo) = c.run]_vars

\* A call has evaluated a family with two failed Runs under an unlimited
\* failed class and found nothing to delete.
UnlimitedFamilyEvaluated ==
    /\ \E w \in Workers : pass[w].pc = "histStamp" /\ pass[w].fresh /\ pass[w].todo = <<>>
    /\ ~Limited(ConditionFalse)
    /\ Cardinality(Remaining(ConditionFalse)) >= 2
    /\ calls = {}

\* C6: a TaskRun owned by a PipelineRun is never the input of a pass of the
\* event reconciler or of the sweep, is never deleted (as input or as a
\* sibling) and never annotated.
OwnedUntouched ==
    \A r \in DOMAIN runs :
        runs[r].owned =>
            /\ runs[r] = OwnedTaskRun
            /\ \A c \in calls : c.run # r
            /\ \A w \in Workers : pass[w].pc # "idle" => pass[w].r # r

\* The sweep has gone past an owned TaskRun of its list, and the limiter has
\* deleted a stand-alone Run of the same family.
OwnedSkipped ==
    /\ sweep.pc = "loop"
    /\ \E i \in DOMAIN sweep.list : i < sweep.idx /\ sweep.list[i].obj.owned
    /\ \E c \in calls : c.op = "history" /\ ~c.notFound

\* A Run with no completion time and no Succeeded condition other than
\* Unknown.
Unfinished(tr) ==
    /\ IsNil(tr.completionTime)
    /\ (IsNil(tr.condition) \/ Val(tr.condition).status = ConditionUnknown)

\* C7: an unfinished Run is never deleted and never annotated, neither as
\* the input of a pass nor as a sibling.
UnfinishedUntouched ==
    \A r \in DOMAIN runs :
        Unfinished(runs[r]) =>
            /\ runs[r].exists
            /\ IsNil(runs[r].ttlScheduleAt)
            /\ IsNil(runs[r].historyCheckedAt)
            /\ \A c \in calls : c.run # r

\* The reconciler was handed an unfinished Run after the limiter deleted a
\* finished sibling of it.
UnfinishedReconciled ==
    /\ pass["event"].pc = "ttl"
    /\ Unfinished(pass["event"].snap)
    /\ Unfinished(runs[pass["event"].r])
    /\ \E c \in calls : c.op = "history" /\ ~c.notFound

\* C8: of the deletes of one Run at most one succeeds, every other one sees
\* 404 after the one that succeeded, and no caller returns an error.
DeleteIdempotence ==
    /\ ~obs.error
    /\ \A r \in DOMAIN runs :
          LET cs == {c \in calls : c.run = r}
          IN  /\ Cardinality({c \in cs : ~c.notFound}) <= 1
              /\ cs # {} => (~runs[r].exists /\ \E c \in cs : ~c.notFound)

\* Two passes deleted the same Run, one saw 404, and both have returned.
DeleteRaced ==
    /\ \E r \in DOMAIN runs :
          /\ \E c \in calls : c.run = r /\ ~c.notFound
          /\ \E c \in calls : c.run = r /\ c.notFound
    /\ \A w \in Workers : pass[w].pc = "idle"
    /\ ~obs.error

\* C9: at most one execution of runGarbageCollector is in progress.
SweepsMutuallyExclusive == Cardinality(InGarbageCollector) <= 1

StaleStamp(tr, T) == ~IsNil(tr.historyCheckedAt) /\ After(T, Val(tr.historyCheckedAt))

\* The step is a call of the history limiter by the worker: the reconciler
\* calls it as it starts its pass, the sweep as the first step of its pass.
Evaluates(w) ==
    IF w = "event" THEN pass[w].pc = "idle" /\ pass'[w].pc # "idle"
    ELSE pass[w].pc = "history" /\ pass'[w].pc # "history"

\* C11: while the sweep that follows a reload at time T is at work, no call
\* of the history limiter, from the sweep or from an informer event, is
\* handed a Run that carries a history-checked-at older than T: the stamp is
\* removed before the Run is evaluated again.
SweepFreshness ==
    [][\A w \in Workers :
          (Evaluates(w) /\ sweep.pc \in {"list", "loop"}) =>
              ~StaleStamp(pass'[w].snap, sweep.updateTime)]_vars

\* What the policy documents hold, read off the documents themselves.  The
\* entry of the name in the kind's list of the namespace's entry, if any.
NamedEntry(policies, namespace, name, resourceType) ==
    IF namespace \notin DOMAIN policies THEN Nil
    ELSE LET list == IF resourceType = PrunerResourceTypeTaskRun
                     THEN policies[namespace].taskRuns ELSE policies[namespace].pipelineRuns
             at == {i \in DOMAIN list : list[i].name = name}
         IN  IF at = {} THEN Nil ELSE Some(list[CHOOSE i \in at : \A j \in at : i <= j])

\* The namespace's entry, if any.
RootEntry(policies, namespace) ==
    IF namespace \in DOMAIN policies THEN Some(policies[namespace]) ELSE Nil

\* A field of an entry; undefined when there is no entry.
FieldIn(entry, field) == IF IsNil(entry) THEN Nil ELSE Val(entry)[field]

\* The five layers of the store for a field, highest first: (b) namespace
\* policy resource-level, (c) namespace policy root, (d) global policy
\* resource-level of the namespace, (e) global policy namespace root, (f)
\* global root.
Layers(ps, namespace, name, resourceType, field) ==
    << FieldIn(NamedEntry(ps.namespacedConfig, namespace, name, resourceType), field),
       FieldIn(RootEntry(ps.namespacedConfig, namespace), field),
       FieldIn(NamedEntry(ps.globalConfig.namespaces, namespace, name, resourceType), field),
       FieldIn(RootEntry(ps.globalConfig.namespaces, namespace), field),
       ps.globalConfig[field] >>

\* The first defined value of the layers in a set of positions, if any.
FirstDefined(layers, positions) ==
    LET defined == {i \in positions : ~IsNil(layers[i])}
    IN  IF defined = {} THEN Nil
        ELSE layers[CHOOSE i \in defined : \A j \in defined : i <= j]

LevelPlaces(ps, namespace, name, resourceType) ==
    << FieldIn(NamedEntry(ps.globalConfig.namespaces, namespace, name, resourceType),
               "enforcedConfigLevel"),
       FieldIn(RootEntry(ps.globalConfig.namespaces, namespace), "enforcedConfigLevel"),
       ps.globalConfig.enforcedConfigLevel,
       FieldIn(NamedEntry(ps.namespacedConfig, namespace, name, resourceType),
               "enforcedConfigLevel"),
       FieldIn(RootEntry(ps.namespacedConfig, namespace), "enforcedConfigLevel") >>

\* C13: the level a lookup resolves is the first one set in the order
\* global resource-level, global namespace root, global root, namespace
\* policy resource-level, namespace policy root, and resource when none is
\* set; a level set only in the per-namespace policy is the one returned.
LevelResolutionOrder ==
    call.op = "lookup" =>
        LET places == LevelPlaces(store, call.namespace, call.name, call.resourceType)
            first == FirstDefined(places, 1..5)
        IN  call.level = IF IsNil(first) THEN EnforcedConfigLevelResource ELSE Val(first)

CappedAt(global, namespace, resource) ==
    call.op = "lookup" =>
        \A f \in FieldTypes :
            LET layers == Layers(store, call.namespace, call.name, call.resourceType, f)
            IN  call.effective[f] =
                    CASE call.level = EnforcedConfigLevelGlobal -> FirstDefined(layers, global)
                      [] call.level = EnforcedConfigLevelNamespace ->
                             FirstDefined(layers, namespace)
                      [] OTHER -> IF ~IsNil(call.annotations[f]) THEN call.annotations[f]
                                  ELSE FirstDefined(layers, resource)

\* C15 as stated: global takes the value only from the global namespace
\* root and the global root (e, f); namespace additionally lets the
\* namespace policy resource-level and root (b, c) override; resource lets
\* every layer, annotations included, override.
CapAsTabulated == CappedAt({4, 5}, {1, 2, 4, 5}, 1..5)

\* C15: global takes the value from the layers of the global document, its
\* resource-level of the namespace included (d, e, f); namespace
\* additionally lets the namespace policy root (c), and not its
\* resource-level, override; resource lets every layer, annotations
\* included, override.
CapAsCoded == CappedAt(3..5, 2..5, 1..5)

\* A lookup under the level namespace passed over a defined namespace
\* policy resource-level value and returned the global resource-level one.
NamespaceCapSkipsResourceLevel ==
    /\ call.op = "lookup"
    /\ call.level = EnforcedConfigLevelNamespace
    /\ LET layers == Layers(store, call.namespace, call.name, call.resourceType,
                            PrunerFieldTypeSuccessfulHistoryLimit)
       IN  /\ ~IsNil(layers[1]) /\ IsNil(layers[2]) /\ ~IsNil(layers[3]) /\ ~IsNil(layers[4])
           /\ call.effective[PrunerFieldTypeSuccessfulHistoryLimit] = layers[3]

\* C16: in the README's order (lowest to highest: global root, namespaced
\* root, global resource level, namespaced resource level, annotations) a
\* value at the global document's resource level wins over one at the
\* namespaced policy's root: a lookup that finds no annotation and no
\* namespaced resource-level value returns the global resource-level value
\* when there is one.
ReadmePrecedence ==
    (call.op = "lookup" /\ call.level = EnforcedConfigLevelResource
                        /\ call.annotations = NoAnnotations) =>
        \A f \in FieldTypes :
            LET layers == Layers(store, call.namespace, call.name, call.resourceType, f)
            IN  (IsNil(layers[1]) /\ ~IsNil(layers[3])) => call.effective[f] = layers[3]

\* Every public lookup gives the same answer on the two stores.
SameLookups(ps1, ps2) ==
    \A namespace \in {TheNamespace, OtherNamespace}, name \in {TheTask, OtherTask},
       resourceType \in ResourceTypes :
        /\ GetLevel(ps1, namespace, name, resourceType)
               = GetLevel(ps2, namespace, name, resourceType)
        /\ \A f \in FieldTypes :
               GetField(ps1, namespace, name, resourceType, f)
                   = GetField(ps2, namespace, name, resourceType, f)

\* C17: LoadGlobalConfig on a config map whose policy text is not YAML
\* returns an error and leaves the global document and the per-namespace
\* policies as they were, so every lookup answers as before the call.
FailedLoadKeepsStore ==
    (call.op = "load" /\ call.configMap.kind = "malformed") =>
        /\ call.err
        /\ store.globalConfig = call.before.globalConfig
        /\ store.namespacedConfig = call.before.namespacedConfig
        /\ SameLookups(store, call.before)

\* A load of malformed text failed on a store that holds a global document
\* with a value for the task and a per-namespace policy.
FailedLoadOnLoadedStore ==
    /\ call.op = "load"
    /\ call.configMap.kind = "malformed"
    /\ call.err
    /\ ~IsNil(GetTaskTTLSecondsAfterFinished(store, TheNamespace, TheTask))
    /\ TheNamespace \in DOMAIN store.globalConfig.namespaces
    /\ TheNamespace \in DOMAIN store.namespacedConfig

\* The document a config map loads: its policy text parsed, or the zero
\* document when it has no policy text.
DocumentOf(configMap) == IF configMap.kind = "doc" THEN configMap.doc ELSE EmptyConfig

\* C19: DeleteNamespacedSpec(ns) removes the per-namespace policy of ns and
\* leaves every other namespace's policy and the global document as they
\* were; a successful LoadGlobalConfig makes the config map's document the
\* whole global document, so that no lookup resolves a value of the previous
\* one, and leaves the per-namespace policies as they were.
WritesTouchOwnDocument ==
    /\ call.op = "delete" =>
          /\ store.globalConfig = call.before.globalConfig
          /\ DOMAIN store.namespacedConfig
                 = (DOMAIN call.before.namespacedConfig) \ {call.namespace}
          /\ \A n \in DOMAIN store.namespacedConfig :
                 store.namespacedConfig[n] = call.before.namespacedConfig[n]
    /\ (call.op = "load" /\ ~call.err) =>
          /\ store.namespacedConfig = call.before.namespacedConfig
          /\ store.globalConfig = DocumentOf(call.configMap)
          /\ SameLookups([store EXCEPT !.namespacedConfig = NoNamespaces],
                         [globalConfig |-> DocumentOf(call.configMap),
                          namespacedConfig |-> NoNamespaces])

\* A delete removed the namespace's policy from a store that holds a policy
\* of another namespace and a global document with an entry for the
\* namespace.
DeletedOneOfTwo ==
    /\ call.op = "delete"
    /\ call.namespace = TheNamespace
    /\ DOMAIN call.before.namespacedConfig = {TheNamespace, OtherNamespace}
    /\ DOMAIN store.namespacedConfig = {OtherNamespace}
    /\ TheNamespace \in DOMAIN store.globalConfig.namespaces

\* The goroutine is about to read the policy documents.
Reading(g) == mu.threads[g].pc = "read"

\* The goroutine is between the first and the last write of its call.
Writing(g) == mu.threads[g].pc \in {"assignNamespaces"}

\* The stores a call can leave behind: one of the two global documents, the
\* per-namespace policy deleted or not.
CompleteStores ==
    {[globalConfig |-> d, namespacedConfig |-> n] :
        d \in {LockStartStore.globalConfig, LockLoadedDocument},
        n \in {LockStartStore.namespacedConfig, NoNamespaces}}

\* C18: every public lookup reads the policy documents only while it holds
\* the store's lock, so that no lookup reads while LoadGlobalConfig or
\* DeleteNamespacedSpec is writing, and what a lookup returns is what some
\* complete document gives, never a partially replaced one.
LookupsHoldLock ==
    \A g \in Callers :
        /\ Reading(g) => (mu.holder = g /\ \A h \in Callers : ~Writing(h))
        /\ ~IsNil(mu.threads[g].seen) =>
               \E ps \in CompleteStores :
                   Val(mu.threads[g].seen) = ReadStore(ps, mu.threads[g].m)

\* The step is the TTL handler's look at the Run the worker handed it.
TTLHandles(w) == pass[w].pc = "ttl" /\ pass'[w] # pass[w]

\* C20: when the TTL handler is handed an Unmarked completed Run whose
\* effective TTL is undefined or -1, it returns nil at once: it writes no
\* ttl-schedule-at, issues no delete and returns neither a requeue nor an
\* error (the sweep goes on to its next Run), and the Run stays Unmarked.
TTLDisabledIgnored ==
    [][\A w \in Workers :
          (/\ TTLHandles(w)
           /\ TTLApplies(pass[w].snap)
           /\ Unmarked(pass[w].snap)
           /\ ~TTLEnabled(PolicyLimit(PrunerFieldTypeTTLSecondsAfterFinished)))
          => /\ runs' = runs
             /\ calls' = calls
             /\ obs' = obs
             /\ pass'[w] = IdlePass
             /\ w = "sweep" => sweep' = [sweep EXCEPT !.idx = @ + 1]
             /\ Unmarked(runs'[pass[w].r])]_vars

\* Under a TTL of -1 the sweep handed a completed stand-alone Run to the
\* limiter and the TTL handler and went on; the Run is there, Unmarked, and
\* nothing was deleted.
TTLDisabledSwept ==
    /\ PolicyLimit(PrunerFieldTypeTTLSecondsAfterFinished) = Some(-1)
    /\ sweep.pc = "loop"
    /\ sweep.idx = 2
    /\ pass["sweep"] = IdlePass
    /\ SweepSelects(sweep.list[1].obj)
    /\ runs[1].exists
    /\ ~IsNil(runs[1].historyCheckedAt)
    /\ Unmarked(runs[1])
    /\ calls = {}

\* C21: for an Unmarked completed Run with an effective TTL t >= 0, the TTL
\* handler works out dueAt = completedAt + t, in seconds, from the Run's
\* completion time and the TTL the policy store resolves at that moment,
\* and the patch that follows writes exactly that value as ttl-schedule-at.
ScheduleComputation ==
    [][\A w \in Workers :
          LET tr == pass[w].snap
              t == PolicyLimit(PrunerFieldTypeTTLSecondsAfterFinished)
          IN  /\ (/\ pass[w].pc = "ttl"
                  /\ pass'[w].pc # "ttl"
                  /\ TTLApplies(tr)
                  /\ Unmarked(tr)
                  /\ ~IsNil(tr.completionTime)
                  /\ ~IsNil(t)
                  /\ Val(t) >= 0)
                 => /\ pass'[w].pc = "ttlPatch"
                    /\ pass'[w].due = Val(tr.completionTime) + Val(t)
                    /\ runs' = runs
              /\ (/\ pass[w].pc = "ttlPatch"
                  /\ pass'[w].pc # "ttlPatch"
                  /\ runs[pass[w].r].exists)
                 => runs'[pass[w].r] =
                        [runs[pass[w].r] EXCEPT !.ttlScheduleAt = Some(pass[w].due)]]_vars

\* A Run that finished in second 1 under a TTL of 1 second carries
\* ttl-schedule-at = second 2.
ScheduledOneSecondLater ==
    /\ PolicyLimit(PrunerFieldTypeTTLSecondsAfterFinished) = Some(1)
    /\ runs[1].exists
    /\ runs[1].completionTime = Some(1)
    /\ runs[1].ttlScheduleAt = Some(2)

\* C22: when the TTL handler issues the delete of an expired Run, a 404 (the
\* Run is already gone, whoever deleted it) ends the pass with no error
\* returned and nothing changed, and a retryable error leaves the Run on the
\* server as it was, Scheduled with the same ttl-schedule-at, and is
\* returned to the caller, so that a later event finds the Run due again.
ExpiringOutcomes ==
    [][\A w \in Workers :
          LET r == pass[w].r
          IN  (pass[w].pc = "ttlDelete" /\ pass'[w].pc # "ttlDelete") =>
                  /\ pass'[w] = IdlePass
                  /\ ~runs[r].exists =>
                        /\ runs' = runs
                        /\ obs' = obs
                        /\ w = "sweep" => sweep' = [sweep EXCEPT !.idx = @ + 1]
                  /\ (runs[r].exists /\ runs'[r].exists) =>
                        /\ runs' = runs
                        /\ ~Unmarked(runs'[r])
                        /\ Expired(now', Val(runs'[r].ttlScheduleAt))
                        /\ obs'.error
                        /\ w = "sweep" => sweep'.pc = "idle"]_vars

\* A delete of the TTL handler failed with a retryable error, and later one
\* pass deleted the Run and the other pass's delete was answered 404.
ExpiringFailedThenGone ==
    /\ obs.error
    /\ ~runs[1].exists
    /\ DeleteCall("ttl", 1, FALSE) \in calls
    /\ DeleteCall("ttl", 1, TRUE) \in calls

\* The Run is completed, stand-alone, and its effective TTL t >= 0 puts
\* completedAt + t within the time the clock covers.
DueInTime(r) ==
    LET t == PolicyLimit(PrunerFieldTypeTTLSecondsAfterFinished)
    IN  /\ runs[r].exists
        /\ ~runs[r].owned
        /\ ~IsNil(runs[r].completionTime)
        /\ ~IsNil(t)
        /\ Val(t) >= 0
        /\ ParseRFC3339(Val(runs[r].completionTime) + Val(t)) <= MaxClock

\* C23: under the fair runs, every completed stand-alone Run whose effective
\* TTL is defined and >= 0 is eventually deleted.
EventualDeletion ==
    \A r \in {1} : DueInTime(r) ~> ~runs[r].exists

\* A Run that finished under a TTL of 1 second was deleted by the TTL
\* handler once the clock had reached its ttl-schedule-at.
DeletedWhenDue ==
    /\ PolicyLimit(PrunerFieldTypeTTLSecondsAfterFinished) = Some(1)
    /\ ~runs[1].exists
    /\ runs[1].ttlScheduleAt = Some(1)
    /\ calls = {DeleteCall("ttl", 1, FALSE)}
    /\ ~obs.error

HistoryBeforeTTL ==
    [][\A w \in Workers :
          LET inHistory == pass[w].pc \in {"history", "histDelete", "histStamp"}
          IN  /\ (pass'[w].pc = "ttl" /\ pass[w].pc # "ttl") =>
                    /\ obs'.error = obs.error
                    /\ \/ /\ pass[w].pc = "histStamp"
                          /\ pass'[w].r = pass[w].r
                          /\ pass'[w].snap = pass[w].snap
                       \/ /\ pass[w].pc = (IF w = "sweep" THEN "history" ELSE "idle")
                          /\ ~HistoryApplies(pass'[w].snap)
              /\ pass'[w].pc \in {"ttlPatch", "ttlDelete"} =>
                    pass[w].pc \in {"ttl", "ttlPatch", "ttlDelete"}
              /\ (inHistory /\ pass'[w].pc \notin {"history", "histDelete", "histStamp", "ttl"}) =>
                    /\ pass'[w] = IdlePass
                    /\ obs'.error
                    /\ runs' = runs
                    /\ calls' = calls]_vars

\* A History pass returned an error, and the sweep's TTL pass on a
\* completed Run has started after the limiter evaluated and stamped it.
TTLAfterHistory ==
    /\ obs.error
    /\ calls = {}
    /\ now = 0
    /\ pass["sweep"].pc = "ttl"
    /\ HistoryApplies(pass["sweep"].snap)
    /\ ~IsNil(runs[pass["sweep"].r].historyCheckedAt)
    /\ Unmarked(runs[pass["sweep"].r])

\* The sweep's pass on the Run at sweep.idx returns in this step, and a
\* completed stand-alone Run is listed after it.
SweepPassReturns == pass["sweep"].pc # "idle" /\ pass'["sweep"].pc = "idle"

SelectedLater ==
    \E j \in (sweep.idx + 1)..Len(sweep.list) : SweepSelects(sweep.list[j].obj)

\* The sweep goes on to the next Run of its list.
SweepGoesOn ==
    /\ sweep'.pc = "loop"
    /\ sweep'.idx = sweep.idx + 1
    /\ sweep'.list = sweep.list

\* C26: when History or TTL processing of one Run returns an error during a
\* sweep, the sweep goes on to the Runs listed after it, so that every other
\* completed Run of the namespace is still processed in that sweep.
SweepSurvivesRunError ==
    [][(/\ SweepPassReturns
        /\ \/ pass["sweep"].pc \in {"histDelete", "histStamp"}
           \/ pass["sweep"].pc = "ttlDelete" /\ runs'[pass["sweep"].r].exists
        /\ SelectedLater)
       => SweepGoesOn]_vars

\* C27: when the TTL pass of one Run in a sweep returns a requeue, its
\* ttl-schedule-at still in the future, the sweep goes on to the Runs listed
\* after it.
SweepSurvivesRequeue ==
    [][(/\ SweepPassReturns
        /\ LET p == pass["sweep"]
           IN  \/ /\ p.pc = "ttl"
                  /\ TTLApplies(p.snap)
                  /\ ~Unmarked(p.snap)
                  /\ ~Expired(now, Val(p.snap.ttlScheduleAt))
               \/ /\ p.pc = "ttlPatch"
                  /\ runs[p.r].exists
                  /\ ~Expired(now, p.due)
        /\ SelectedLater)
       => SweepGoesOn]_vars

\* C30: when the sweep comes to a completed stand-alone Run whose
\* history-checked-at does not parse, it removes the annotation and goes on
\* with the Run and with the Runs after it; no error ends the namespace's
\* processing.
BadAnnotationStripped ==
    [][(/\ sweep.pc = "loop"
        /\ pass["sweep"].pc = "idle"
        /\ sweep.idx <= Len(sweep.list)
        /\ <<sweep', pass'["sweep"]>> # <<sweep, pass["sweep"]>>
        /\ LET tr == sweep.list[sweep.idx].obj
           IN  /\ SweepSelects(tr)
               /\ ~IsNil(tr.historyCheckedAt)
               /\ Val(tr.historyCheckedAt) < 0
               /\ runs[sweep.list[sweep.idx].name].exists)
       => /\ IsNil(runs'[sweep.list[sweep.idx].name].historyCheckedAt)
          /\ sweep'.pc = "loop"
          /\ obs'.error = obs.error]_vars

\* The entries of the fan-out's log for a namespace and a kind of Run.
Logged(ns, kind) == {i \in DOMAIN fan.log : fan.log[i].ns = ns /\ fan.log[i].kind = kind}

\* C28: an error in one namespace, or in its PipelineRun phase, stops
\* nothing else: the TaskRun phase of a namespace always follows its
\* PipelineRun phase, whatever that phase returned, and when the sweep has
\* completed every selected namespace has had both phases exactly once.
NamespaceIsolation ==
    /\ \A i \in DOMAIN fan.log :
          /\ fan.log[i].kind = "taskrun" =>
                \E j \in Logged(fan.log[i].ns, "pipelinerun") : j < i
          /\ fan.log[i].kind = "pipelinerun" =>
                \/ \E j \in Logged(fan.log[i].ns, "taskrun") : j > i
                \/ \E w \in DOMAIN fan.workers :
                      fan.workers[w] = [pc |-> "trs", ns |-> fan.log[i].ns]
    /\ (fan.pc = "done" /\ fan.closed) =>
          \A k \in DOMAIN fan.namespaces :
              /\ Cardinality(Logged(fan.namespaces[k], "pipelinerun")) = 1
              /\ Cardinality(Logged(fan.namespaces[k], "taskrun")) = 1

\* A sweep has completed in which both phases of the first namespace
\* returned errors and both phases of the second namespace were run.
SweepCompletedDespiteErrors ==
    /\ fan.pc = "done"
    /\ Len(fan.namespaces) = 2
    /\ \A i \in Logged(fan.namespaces[1], "pipelinerun") \cup Logged(fan.namespaces[1], "taskrun") :
          fan.log[i].err
    /\ \A kind \in {"pipelinerun", "taskrun"} :
          /\ Logged(fan.namespaces[1], kind) # {}
          /\ Logged(fan.namespaces[2], kind) # {}

\* C29: if fetching the config map or loading the policy fails at the start
\* of a sweep, the sweep has returned: it has selected no namespace, started
\* no worker, run no cleanup on any namespace, changed neither the policy
\* store nor any Run, and has reported a configuration error.
ReloadFailureAborts ==
    (fan.pc # "start" /\ (IsNil(fan.configMap) \/ Val(fan.configMap).kind = "malformed")) =>
        /\ fan.pc = "done"
        /\ fan.namespaces = <<>>
        /\ fan.workers = <<>>
        /\ fan.sent = 0
        /\ fan.log = <<>>
        /\ fan.reported \in {{"configmap"}, {"global_config"}}
        /\ store = PrunerConfigStore
        /\ runs = InitRuns
        /\ calls = {}

\* The config map was fetched and its policy text did not parse.
ReloadFailed ==
    /\ fan.pc = "done"
    /\ ~IsNil(fan.configMap)
    /\ Val(fan.configMap).kind = "malformed"
    /\ fan.reported = {"global_config"}

---------------------------------------------------------------------------
(* The sweep's selection and the adapter's completion test                 *)

\* The loop of cleanupTRs passes over the item it is at, which is still on
\* the server, without handing it to History and TTL.
SweepSkips ==
    /\ sweep.pc = "loop"
    /\ sweep.idx <= Len(sweep.list)
    /\ pass["sweep"].pc = "idle"
    /\ runs[sweep.list[sweep.idx].name].exists
    /\ sweep'.pc = "loop"
    /\ sweep'.idx = sweep.idx + 1
    /\ pass'["sweep"].pc = "idle"

\* C31: the sweep replays History then TTL for every Run of the namespace
\* that the adapter's IsCompleted holds for and that no PipelineRun owns,
\* a Run without a completion time but with a Succeeded condition of status
\* True or False included: the loop never passes over such a Run.
SweepCoversCompleted ==
    [][SweepSkips =>
          LET tr == sweep.list[sweep.idx].obj
          IN  ~(IsCompleted(tr) /\ ~HasPipelineRunOwnerReference(tr))]_vars

\* What completedAt is to return for a Run: the status completion time if
\* set, otherwise the last-transition time of the Succeeded condition.
StatedCompletionTime(tr) ==
    IF ~IsNil(tr.completionTime) THEN tr.completionTime
    ELSE IF IsNil(tr.condition) THEN Nil
    ELSE Val(tr.condition).lastTransitionTime

\* The Run has neither a completion time nor a last-transition time on a
\* Succeeded condition of status True or False.
NoFinishTime(tr) ==
    /\ IsNil(tr.completionTime)
    /\ ~IsNil(tr.condition)
    /\ Val(tr.condition).status # ConditionUnknown
    /\ IsNil(Val(tr.condition).lastTransitionTime)

\* C38 as stated: for every Run that IsCompleted holds for, GetCompletionTime
\* succeeds and returns the completion time if set, otherwise the
\* condition's last-transition time; it fails only for Runs that are not
\* completed.
CompletedAtAgrees ==
    \A r \in DOMAIN runs :
        LET tr == runs[r]
            res == GetCompletionTime(tr)
        IN  /\ IsCompleted(tr) =>
                  ~res.err /\ Some(res.time) = StatedCompletionTime(tr)
            /\ res.err => ~IsCompleted(tr)

\* C38, amended: for every Run that IsCompleted holds for, GetCompletionTime
\* returns the completion time if set, otherwise the condition's
\* last-transition time if that is set; it fails only for Runs that are not
\* completed or that have neither of the two times.
CompletedAtAsCoded ==
    \A r \in DOMAIN runs :
        LET tr == runs[r]
            res == GetCompletionTime(tr)
        IN  /\ IsCompleted(tr) /\ ~NoFinishTime(tr) =>
                  ~res.err /\ Some(res.time) = StatedCompletionTime(tr)
            /\ res.err => ~IsCompleted(tr) \/ NoFinishTime(tr)

\* The TTL handler has scheduled a Run that has no completion time from the
\* last-transition time of its condition.
ScheduledFromCondition ==
    \E r \in DOMAIN runs :
        /\ IsCompleted(runs[r])
        /\ IsNil(runs[r].completionTime)
        /\ ~IsNil(runs[r].ttlScheduleAt)

---------------------------------------------------------------------------
(* The fan-out's hand-off                                                  *)

\* The workers that hold the namespace: received and not yet done with it.
Holding(ns) ==
    {w \in DOMAIN fan.workers : fan.workers[w].pc \in {"prs", "trs"} /\ fan.workers[w].ns = ns}

\* Each namespace sent so far is with exactly one worker or has been worked
\* through exactly once, and no other namespace is with any worker; a worker
\* exits only after the channel is closed, which is after the last send;
\* the sweep completes only when every worker has exited.
HandOffExact ==
    /\ \A k \in DOMAIN fan.namespaces :
          Cardinality(Holding(fan.namespaces[k]))
              + Cardinality(Logged(fan.namespaces[k], "taskrun"))
            = IF k <= fan.sent THEN 1 ELSE 0
    /\ \A w \in DOMAIN fan.workers : fan.workers[w].pc = "exit" => fan.closed
    /\ fan.closed => fan.sent = Len(fan.namespaces)
    /\ (fan.pc = "done" /\ fan.workers # <<>>) =>
          /\ fan.closed
          /\ \A w \in DOMAIN fan.workers : fan.workers[w].pc = "exit"

---------------------------------------------------------------------------
(* The requeue of a Run that is not yet due                                *)

\* The TTL handler of pass w decides on a schedule at this step: the one its
\* copy of the Run carries, or the one it has just worked out and now
\* patches onto the Run.
DecidesOn(w, schedule) ==
    \/ /\ pass[w].pc = "ttl"
       /\ pass'[w].pc # "ttl"
       /\ TTLApplies(pass[w].snap)
       /\ ~Unmarked(pass[w].snap)
       /\ schedule = Val(pass[w].snap.ttlScheduleAt)
    \/ /\ pass[w].pc = "ttlPatch"
       /\ pass'[w].pc # "ttlPatch"
       /\ runs[pass[w].r].exists
       /\ schedule = pass[w].due

\* A step of the TTL handler of pass w.
TTLSteps(w) ==
    /\ pass[w].pc \in {"ttl", "ttlPatch", "ttlDelete"}
    /\ pass'[w] # pass[w]
    /\ pass'[w].pc # pass[w].pc

---------------------------------------------------------------------------
(* A TTL that is lowered after a Run was scheduled                         *)

\* The TTL handler of pass w decides for a Run whose copy carries
\* ttl-schedule-at: it goes by that time and patches nothing.
UsesExistingSchedule(w) ==
    (/\ pass[w].pc = "ttl"
     /\ pass'[w].pc # "ttl"
     /\ TTLApplies(pass[w].snap)
     /\ ~Unmarked(pass[w].snap))
    => /\ runs' = runs
       /\ IF Expired(now, Val(pass[w].snap.ttlScheduleAt))
          THEN pass'[w].pc = "ttlDelete" /\ pass'[w].due = Val(pass[w].snap.ttlScheduleAt)
          ELSE /\ pass'[w].pc = "idle"
               /\ pass'[w].after = ParseRFC3339(Val(pass[w].snap.ttlScheduleAt)) - now

\* The sweep's pass on a Run returns.
SweepPassEnds == pass["sweep"].pc \notin {"idle", "history"} /\ pass'["sweep"].pc = "idle"

\* The schedule the policy in force gives the Run.
ScheduleOfPolicy(tr) ==
    DueAt(GetCompletionTime(tr).time,
          Val(GetTaskTTLSecondsAfterFinished(store, TheNamespace, tr.task)))

\* C34 as stated: after the TTL was lowered, event reconciles keep using the
\* ttl-schedule-at a Run carries, and the sweep that follows the policy
\* change clears it so that the schedule is worked out again: when the
\* sweep's pass on a Run returns, the Run is gone or its ttl-schedule-at is
\* the one the new policy gives.
DowngradeResweep ==
    [][/\ UsesExistingSchedule("event")
       /\ (SweepPassEnds /\ sweep.loads > 0) =>
             LET tr == runs'[pass["sweep"].r]
             IN  \/ ~tr.exists
                 \/ Unmarked(tr)
                 \/ Val(tr.ttlScheduleAt) = ScheduleOfPolicy(tr)]_vars

\* C34, amended: after the TTL was lowered, event reconciles and the sweep
\* alike keep using the ttl-schedule-at a Run carries: the sweep's loop
\* leaves the annotation on the Run as it is, and both handlers go by the
\* time it holds, so the Run is deleted when the old schedule is due.
DowngradeKeepsSchedule ==
    [][/\ \A w \in Workers : UsesExistingSchedule(w)
       /\ (/\ sweep.pc = "loop"
           /\ pass["sweep"].pc = "idle"
           /\ (sweep' # sweep \/ pass'["sweep"] # pass["sweep"])) =>
             /\ \A r \in DOMAIN runs : runs'[r].ttlScheduleAt = runs[r].ttlScheduleAt
             /\ pass'["sweep"].pc = "history" =>
                   pass'["sweep"].snap.ttlScheduleAt = sweep.list[sweep.idx].obj.ttlScheduleAt]_vars

\* After the TTL was lowered, the sweep's pass on a Run that was scheduled
\* under the old TTL has returned a requeue, and the Run still carries the
\* old schedule, later than the one the new policy gives.
SweptUnderOldSchedule ==
    /\ sweep.loads > 0
    /\ pass["sweep"].pc = "idle"
    /\ pass["sweep"].after > 0
    /\ runs[1].exists
    /\ ~Unmarked(runs[1])
    /\ Val(runs[1].ttlScheduleAt) = Val(runs[1].completionTime) + MaxTTL
    /\ Val(runs[1].ttlScheduleAt) > ScheduleOfPolicy(runs[1])

---------------------------------------------------------------------------
(* The frame of the annotation patches                                     *)

\* C35: the sweep's strip of history-checked-at removes that annotation
\* from the Run as the server holds it and changes nothing else of it, nor
\* any other Run, also when the TTL handler of the reconciler has patched
\* ttl-schedule-at onto the Run since the sweep listed it; and a patch of
\* ttl-schedule-at changes nothing but that annotation, so both patches
\* take effect in either order.
PatchesDoNotClobber ==
    [][\A r \in DOMAIN runs :
          /\ (~IsNil(runs[r].historyCheckedAt) /\ IsNil(runs'[r].historyCheckedAt)) =>
                runs' = [runs EXCEPT ![r].historyCheckedAt = Nil]
          /\ (runs[r].exists /\ runs'[r].exists
                /\ runs'[r].ttlScheduleAt # runs[r].ttlScheduleAt) =>
                runs' = [runs EXCEPT ![r].ttlScheduleAt = runs'[r].ttlScheduleAt]]_vars

\* The sweep has just stripped history-checked-at from a Run that the
\* reconciler's TTL handler scheduled after the sweep had listed it: the
\* listed copy carries the stamp and no schedule, the Run on the server
\* carries the schedule and no stamp.
StrippedAfterConcurrentPatch ==
    /\ pass["sweep"].pc = "history"
    /\ ~IsNil(pass["sweep"].snap.historyCheckedAt)
    /\ IsNil(pass["sweep"].snap.ttlScheduleAt)
    /\ runs[pass["sweep"].r].exists
    /\ IsNil(runs[pass["sweep"].r].historyCheckedAt)
    /\ ~IsNil(runs[pass["sweep"].r].ttlScheduleAt)

---------------------------------------------------------------------------
(* Package metrics                                                         *)

RECURSIVE SumOfDeltas(_, _)
\* The deltas that the calls in T have worked out for the key and not yet
\* added to the counter.
SumOfDeltas(T, k) ==
    IF T = {} THEN 0
    ELSE LET t == CHOOSE x \in T : TRUE
             d == IF met.threads[t].pc = "add" /\ met.threads[t].key = k
                  THEN met.threads[t].delta ELSE 0
         IN  d + SumOfDeltas(T \ {t}, k)

\* For every key, what has been added to the counter and what the calls in
\* progress are about to add make up the last recorded value.
DeltasMakeLastValue ==
    \A k \in MetricKeys :
        met.counter[k] + SumOfDeltas(Callers, k) = met.last[k]

\* The call of t records its value for its key at this step.
Records(t) == met.threads[t].pc = "write" /\ met'.threads[t].pc # "write"

\* The call of t adds to the counter at this step.
Adds(t) == met.threads[t].pc = "add" /\ met'.threads[t].pc # "add"

\* C36: each call works out, as its delta, exactly its value minus the value
\* recorded for its key before it, and adds exactly that to the counter of
\* the key; so the deltas added and about to be added always make up the
\* last recorded value, and once all calls have returned the counter of
\* every key stands at the last recorded value.
SetSemantics ==
    /\ []DeltasMakeLastValue
    /\ []((\A t \in Callers : met.threads[t].pc = "idle") =>
             \A k \in MetricKeys : met.counter[k] = met.last[k])
    /\ [][\A t \in Callers :
             LET k == met.threads[t].key
             IN  /\ Records(t) =>
                       /\ met'.last[k] = met.threads[t].count
                       /\ met'.threads[t].delta = met.threads[t].count - met.last[k]
                 /\ Adds(t) =>
                       met'.counter = [met.counter EXCEPT ![k] = @ + met.threads[t].delta]]_vars

\* Two calls for one key have both recorded their values and released the
\* mutex, and neither has added its delta yet.
TwoAddsPending ==
    \E t, u \in Callers :
        /\ t # u
        /\ met.threads[t].pc = "add"
        /\ met.threads[u].pc = "add"
        /\ met.threads[t].key = met.threads[u].key
        /\ met.threads[t].delta > 0
        /\ met.threads[u].delta < 0

\* C37: when the function that WithErrorReporting wraps panics, the panic
\* is recovered, a resource error with the reason panic is reported and the
\* wrapper returns an error that is not nil.
PanicBecomesError ==
    \A w \in met.wrapped :
        w.fn = "panic" => w.err /\ w.reported = "panic"

\* C39: a call of UpdateConfig on an initialized reporter returns: it is
\* never at the Lock of initialize while it holds that lock itself, where
\* no step of any goroutine can release it.
UpdateConfigReturns ==
    \A t \in Callers : ~(met.hr.pc[t] = "initLock" /\ met.hr.mu = t)

\* C40: whenever a call of Setup returns a nil error, GetReporter gives a
\* reporter that is not nil; after a first initialization that failed, no
\* later call reports success.
SetupSuccessUsable ==
    \A s \in met.setups : ~s.err => s.reporter


=============================================================================
